---------------------------- MODULE Spec2Model ----------------------------
(***************************************************************************)
(* Credits ledger and PayPal webhook reconciliation of backend/server.js.  *)
(* The store is Firestore: the `users` collection, the append-only         *)
(* `credits_ledger` collection and the `processed_webhooks` collection.    *)
(* Every request is an async function; it is split into one action per     *)
(* awaited store call, so that concurrent requests interleave exactly      *)
(* where the code yields.  db.runTransaction is one atomic action.         *)
(***************************************************************************)
EXTENDS Integers, Sequences, FiniteSets, TLC

VARIABLES
    users,                \* users collection: document id -> document
    credits_ledger,       \* credits_ledger collection, in creation order
    processed_webhooks,   \* ids of the documents of processed_webhooks
    proc,                 \* the requests in flight: position and locals
    calls,                \* number of requests started so far
    PAYPAL_CONFIG,        \* the PayPal credentials of the environment
    generations,          \* the generations collection, in order of creation
    limits,               \* a call of canUpload: its arguments and result
    mastery,              \* users/{uid}/mastery/{concept}, one concept
    study                 \* a SequentialStudy object and its container

vars == <<users, credits_ledger, processed_webhooks, proc, calls,
          PAYPAL_CONFIG, generations, limits, mastery, study>>

----------------------------------------------------------------------------
(* Bounds of the model                                                     *)

MaxCalls == 3

UserIds == {"u1", "u2"}
Procs == {"p1", "p2"}
CallerKeys == {"k1"}
DeductAmounts == {1, 2}
GrantAmounts == {-2, 2}
GrantTypes == {"grant", "purchase"}

----------------------------------------------------------------------------
(* Program constants                                                       *)

PLAN_CREDITS == [free |-> 3, pro |-> 40]

null == "null"
StoreError == "UNAVAILABLE"

\* The PayPal events that may be delivered; an event id fixes its content.
Events ==
    { [id |-> "e1", event_type |-> "BILLING.SUBSCRIPTION.ACTIVATED",
       resourceId |-> "s1", custom_id |-> "u1"],
      [id |-> "e2", event_type |-> "PAYMENT.SALE.COMPLETED",
       resourceId |-> "s1", custom_id |-> null],
      [id |-> "e3", event_type |-> "PAYMENT.SALE.REFUNDED",
       resourceId |-> "s1", custom_id |-> null],
      [id |-> "e4", event_type |-> "BILLING.SUBSCRIPTION.CANCELLED",
       resourceId |-> "s1", custom_id |-> null],
      [id |-> "e5", event_type |-> "CUSTOMER.DISPUTE.CREATED",
       resourceId |-> "s1", custom_id |-> null] }

NoEvent == [id |-> null, event_type |-> null, resourceId |-> null,
            custom_id |-> null]

PurchaseEvents == {"BILLING.SUBSCRIPTION.ACTIVATED", "PAYMENT.SALE.COMPLETED"}
RefundEvents == {"PAYMENT.SALE.REFUNDED", "PAYMENT.SALE.REVERSED"}
CancelEvents == {"BILLING.SUBSCRIPTION.CANCELLED",
                 "BILLING.SUBSCRIPTION.SUSPENDED",
                 "BILLING.SUBSCRIPTION.EXPIRED"}

----------------------------------------------------------------------------
(* Documents                                                               *)

\* A users document that does not exist (userDoc.exists is false).
NoDoc == [exists |-> FALSE, plan |-> null, hasBalance |-> FALSE,
          credits_balance |-> 0, paypalSubscriptionId |-> null,
          manualProCreditsGranted |-> FALSE]

\* newUserData of getCreditsBalance.
newUserData == [exists |-> TRUE, plan |-> "free", hasBalance |-> TRUE,
                credits_balance |-> PLAN_CREDITS.free,
                paypalSubscriptionId |-> null,
                manualProCreditsGranted |-> FALSE]

\* userDoc.data().credits_balance || 0
BalanceOrZero(doc) == IF doc.hasBalance THEN doc.credits_balance ELSE 0

\* userDoc.data().plan || 'free'
PlanOrFree(doc) == IF doc.plan = null THEN "free" ELSE doc.plan

\* Mutant of InitEntry: the entry carries no idempotency key.
InitEntryUnkeyed(userId) ==
    [userId |-> userId, amount |-> PLAN_CREDITS.free, type |-> "grant",
     description |-> "Initial free plan credits",
     idempotencyKey |-> null, paypalEventId |-> null,
     hasBalanceAfter |-> FALSE, balanceAfter |-> 0]

\* The ledger entry written by getCreditsBalance: it has no balanceAfter.
InitEntry(userId) ==
    [userId |-> userId, amount |-> PLAN_CREDITS.free, type |-> "grant",
     description |-> "Initial free plan credits",
     idempotencyKey |-> "init_" \o userId, paypalEventId |-> null,
     hasBalanceAfter |-> FALSE, balanceAfter |-> 0]

\* Mutant of DeductionEntry: the amount is logged unsigned.
DeductionEntryUnsigned(userId, amount, description, idempotencyKey, newBalance) ==
    [userId |-> userId, amount |-> amount, type |-> "deduction",
     description |-> description, idempotencyKey |-> idempotencyKey,
     paypalEventId |-> null,
     hasBalanceAfter |-> TRUE, balanceAfter |-> newBalance]

\* The ledger entry written inside the deductCredits transaction.
DeductionEntry(userId, amount, description, idempotencyKey, newBalance) ==
    [userId |-> userId, amount |-> 0 - amount, type |-> "deduction",
     description |-> description, idempotencyKey |-> idempotencyKey,
     paypalEventId |-> null,
     hasBalanceAfter |-> TRUE, balanceAfter |-> newBalance]

\* Mutant of GrantEntry: balanceAfter logs the amount, not the balance.
GrantEntryAmountAsBalance(userId, amount, type, description, idempotencyKey, paypalEventId, newBalance) ==
    [userId |-> userId, amount |-> amount, type |-> type,
     description |-> description, idempotencyKey |-> idempotencyKey,
     paypalEventId |-> paypalEventId,
     hasBalanceAfter |-> TRUE, balanceAfter |-> amount]

\* The ledger entry written inside the addCredits transaction.
GrantEntry(userId, amount, type, description, idempotencyKey, paypalEventId, newBalance) ==
    [userId |-> userId, amount |-> amount, type |-> type,
     description |-> description, idempotencyKey |-> idempotencyKey,
     paypalEventId |-> paypalEventId,
     hasBalanceAfter |-> TRUE, balanceAfter |-> newBalance]

\* Mutant of ExistingLedger: the query never finds an entry.
NoExistingLedger(idempotencyKey) == FALSE

\* credits_ledger.where('idempotencyKey', '==', key).limit(1).get(), !empty
ExistingLedger(idempotencyKey) ==
    \E i \in DOMAIN credits_ledger :
        credits_ledger[i].idempotencyKey = idempotencyKey

\* Mutant of ClampedBalance: the Math.max(0, ...) is forgotten.
UnclampedBalance(currentBalance, amount) == currentBalance + amount

\* Math.max(0, currentBalance + amount)
ClampedBalance(currentBalance, amount) ==
    IF currentBalance + amount < 0 THEN 0 ELSE currentBalance + amount

\* Mutant of DeductOutcome: the balance check is forgotten.
DeductOutcomeNoBalanceCheck(doc, amount) ==
    IF ~doc.exists THEN "User not found" ELSE "ok"

\* Mutant of DeductOutcome: the existence check is forgotten, a missing
\* document reads as a balance of 0.
DeductOutcomeNoExistsCheck(doc, amount) ==
    IF BalanceOrZero(doc) < amount THEN "Insufficient credits" ELSE "ok"

\* The checks of the deductCredits transaction, in the order of the code.
DeductOutcome(doc, amount) ==
    IF ~doc.exists THEN "User not found"
    ELSE IF BalanceOrZero(doc) < amount THEN "Insufficient credits"
    ELSE "ok"

\* users.where('paypalSubscriptionId', '==', subscriptionId).limit(1).get()
UsersWithSubscription(subscriptionId) ==
    { u \in UserIds : users[u].exists
                      /\ users[u].paypalSubscriptionId = subscriptionId }

----------------------------------------------------------------------------
(* canUpload(plan, uploads)                                                *)

MaxUploads == 10

\* The plan arguments: missing (undefined), empty, the two plans, another.
Plans == {null, "", "free", "pro", "alien"}

Uploads == -1 .. MaxUploads

\* !plan
Missing(plan) == plan \in {null, ""}

\* Mutant of canUpload: the free limit is compared with <=.
canUploadInclusive(plan, uploads) ==
    IF Missing(plan) THEN FALSE
    ELSE IF plan = "free" THEN uploads <= 3
    ELSE IF plan = "pro" THEN TRUE
    ELSE FALSE

canUpload(plan, uploads) ==
    IF Missing(plan) THEN FALSE
    ELSE IF plan = "free" THEN uploads < 3
    ELSE IF plan = "pro" THEN TRUE
    ELSE FALSE

\* No call of canUpload has been made.
NoLimits == [plan |-> null, uploads |-> 0, called |-> FALSE, result |-> FALSE]

\* No SequentialStudy object has been constructed.
NoStudy ==
    [sections |-> <<>>, questions |-> <<>>, currentSectionIndex |-> 0,
     currentQuestion |-> 0, score |-> 0, enabled |-> FALSE,
     listeners |-> 0, disabled |-> TRUE, view |-> "none",
     fadingOut |-> 0, fadingIn |-> 0, completed |-> 0, clicks |-> 0]

\* A mastery document that does not exist; read, it yields the default
\* { score: 50, level: 1, history: [] } of the quiz handler.
NoMastery == [exists |-> FALSE, score |-> 50, level |-> 1,
              unstable |-> FALSE, consecutive_failures |-> 0,
              history |-> <<>>]

----------------------------------------------------------------------------
(* Requests                                                                *)

NoResult == [success |-> FALSE, duplicate |-> FALSE, hasNewBalance |-> FALSE,
             newBalance |-> 0, error |-> null]

Duplicate == [success |-> TRUE, duplicate |-> TRUE, hasNewBalance |-> FALSE,
              newBalance |-> 0, error |-> null]

Success(newBalance) ==
    [success |-> TRUE, duplicate |-> FALSE, hasNewBalance |-> TRUE,
     newBalance |-> newBalance, error |-> null]

Failure(message) ==
    [success |-> FALSE, duplicate |-> FALSE, hasNewBalance |-> FALSE,
     newBalance |-> 0, error |-> message]

Idle == [op |-> "none", pc |-> "idle", userId |-> null, amount |-> 0,
         type |-> null, description |-> null, idempotencyKey |-> null,
         event |-> NoEvent, result |-> NoResult, userData |-> NoDoc,
         isValid |-> FALSE, exception |-> FALSE, status |-> 0,
         generationId |-> 0, isCorrect |-> FALSE, masteryData |-> NoMastery,
         snapshot |-> {}]

Free(p) == proc[p].pc \in {"idle", "done"}

Set(p, rec) == proc' = [proc EXCEPT ![p] = rec]

\* Mutant of ledgerAdd: the new entry takes the place of the ledger.
ledgerAddReplacing(entry) == <<entry>>

\* The ledger after credits_ledger.add(entry), or after
\* transaction.set(db.collection('credits_ledger').doc(), entry): a new
\* document; no document already in the collection is written.
ledgerAdd(entry) == Append(credits_ledger, entry)

\* process.env.PAYPAL_CLIENT_ID and PAYPAL_WEBHOOK_ID are set.
Configured == [clientId |-> "client", webhookId |-> "webhook"]

\* An empty store; the PayPal credentials are configured.
Init ==
    /\ users = [u \in UserIds |-> NoDoc]
    /\ credits_ledger = <<>>
    /\ processed_webhooks = {}
    /\ proc = [p \in Procs |-> Idle]
    /\ calls = 0
    /\ PAYPAL_CONFIG = Configured
    /\ generations = <<>>
    /\ mastery = [u \in UserIds |-> NoMastery]
    /\ limits = NoLimits
    /\ study = NoStudy

----------------------------------------------------------------------------
(* getCreditsBalance(userId): userRef.get(), then either the lazy          *)
(* initialisation (userRef.set, credits_ledger.add), the manual-Pro        *)
(* correction (userRef.update) or nothing.  None of it is a transaction.   *)

\* plan === 'pro' && !paypalSubscriptionId && !manualProCreditsGranted
ManualProCondition(userData) ==
    /\ userData.plan = "pro"
    /\ userData.paypalSubscriptionId = null
    /\ ~userData.manualProCreditsGranted

\* userData.credits_balance <= 0 (false when the field is missing)
GateRejects(userData) ==
    userData.hasBalance /\ userData.credits_balance <= 0

\* Where getCreditsBalance returns to: the generate-plan route rejects with
\* 403 or goes on to the extraction and the AI call; a direct call is over.
AfterBalance(call, userData) ==
    IF call.op = "generatePlan"
    THEN IF GateRejects(userData)
         THEN [call EXCEPT !.userData = userData, !.pc = "done",
                           !.status = 403]
         ELSE [call EXCEPT !.userData = userData, !.pc = "genAI"]
    ELSE [call EXCEPT !.userData = userData, !.pc = "done"]

\* userRef.get() and the branch taken on the document.
BalanceRead(call) ==
    LET userDoc == users[call.userId]
    IN  IF ~userDoc.exists
        THEN [call EXCEPT !.userData = userDoc, !.pc = "gcbSet"]
        ELSE IF ManualProCondition(userDoc)
        THEN [call EXCEPT !.userData = userDoc, !.pc = "gcbUpdate"]
        ELSE AfterBalance(call, userDoc)

GetCreditsBalance_get(p, userId) ==
    /\ Free(p)
    /\ calls < MaxCalls
    /\ calls' = calls + 1
    /\ Set(p, BalanceRead([Idle EXCEPT !.op = "getCreditsBalance",
                                      !.userId = userId]))
    /\ UNCHANGED <<users, credits_ledger, processed_webhooks, PAYPAL_CONFIG, generations, limits, mastery, study>>

\* await userRef.set(newUserData): replaces the whole document.
GetCreditsBalance_set(p) ==
    /\ proc[p].pc = "gcbSet"
    /\ users' = [users EXCEPT ![proc[p].userId] = newUserData]
    /\ Set(p, [proc[p] EXCEPT !.pc = "gcbLedger"])
    /\ UNCHANGED <<credits_ledger, processed_webhooks, calls, PAYPAL_CONFIG, generations, limits, mastery, study>>

\* await db.collection('credits_ledger').add({...}); return newUserData
GetCreditsBalance_ledger(p) ==
    /\ proc[p].pc = "gcbLedger"
    /\ credits_ledger' = ledgerAdd(InitEntry(proc[p].userId))
    /\ Set(p, AfterBalance(proc[p], newUserData))
    /\ UNCHANGED <<users, processed_webhooks, calls, PAYPAL_CONFIG, generations, limits, mastery, study>>

\* await userRef.update({credits_balance: 40, manualProCreditsGranted: true})
\* The users documents are never deleted, so the update finds the document.
GetCreditsBalance_update(p) ==
    /\ proc[p].pc = "gcbUpdate"
    /\ users' = [users EXCEPT ![proc[p].userId] =
                     [@ EXCEPT !.hasBalance = TRUE,
                               !.credits_balance = PLAN_CREDITS.pro,
                               !.manualProCreditsGranted = TRUE]]
    /\ Set(p, AfterBalance(proc[p],
                 [proc[p].userData EXCEPT
                     !.hasBalance = TRUE,
                     !.credits_balance = PLAN_CREDITS.pro,
                     !.manualProCreditsGranted = TRUE]))
    /\ UNCHANGED <<credits_ledger, processed_webhooks, calls, PAYPAL_CONFIG, generations, limits, mastery, study>>

----------------------------------------------------------------------------
(* deductCredits(userId, amount, description, idempotencyKey)              *)

\* Mutant of AfterCredits: the chat goes on to the AI call whatever the
\* deduction returned.
AfterCreditsChatProceeds(call, result) ==
    IF call.op = "webhook"
    THEN [call EXCEPT !.result = result,
                      !.pc = IF call.event.event_type \in PurchaseEvents
                             THEN "whUpdate" ELSE "whMark"]
    ELSE IF call.op = "generatePlan"
    THEN IF ~result.success /\ ~result.duplicate
         THEN [call EXCEPT !.result = result, !.pc = "genDelete"]
         ELSE [call EXCEPT !.result = result, !.pc = "done", !.status = 200]
    ELSE IF call.op = "chat"
    THEN [call EXCEPT !.result = result, !.pc = "chatAI"]
    ELSE [call EXCEPT !.result = result, !.pc = "done"]

\* Mutant of AfterCredits: the plan is answered whatever the deduction
\* returned.
AfterCreditsPlanAnswered(call, result) ==
    IF call.op = "webhook"
    THEN [call EXCEPT !.result = result,
                      !.pc = IF call.event.event_type \in PurchaseEvents
                             THEN "whUpdate" ELSE "whMark"]
    ELSE IF call.op = "generatePlan"
    THEN [call EXCEPT !.result = result, !.pc = "done", !.status = 200]
    ELSE IF call.op = "chat"
    THEN IF ~result.success
         THEN [call EXCEPT !.result = result, !.pc = "done", !.status = 403]
         ELSE [call EXCEPT !.result = result, !.pc = "chatAI"]
    ELSE [call EXCEPT !.result = result, !.pc = "done"]

\* Where a finished deductCredits/addCredits call returns to: the webhook
\* handler goes on after its addCredits call, a direct call is over.
AfterCredits(call, result) ==
    IF call.op = "webhook"
    THEN [call EXCEPT !.result = result,
                      !.pc = IF call.event.event_type \in PurchaseEvents
                             THEN "whUpdate" ELSE "whMark"]
    ELSE IF call.op = "generatePlan"
    THEN IF ~result.success /\ ~result.duplicate
         THEN [call EXCEPT !.result = result, !.pc = "genDelete"]
         ELSE [call EXCEPT !.result = result, !.pc = "done", !.status = 200]
    ELSE IF call.op = "chat"
    THEN IF ~result.success
         THEN [call EXCEPT !.result = result, !.pc = "done", !.status = 403]
         ELSE [call EXCEPT !.result = result, !.pc = "chatAI"]
    ELSE [call EXCEPT !.result = result, !.pc = "done"]

\* The call; with a key the first await is the idempotency query, without
\* one it is the transaction.
DeductCredits(p, userId, amount, idempotencyKey) ==
    /\ Free(p)
    /\ calls < MaxCalls
    /\ calls' = calls + 1
    /\ Set(p, [Idle EXCEPT !.op = "deductCredits", !.userId = userId,
                           !.amount = amount, !.type = "deduction",
                           !.description = "call",
                           !.idempotencyKey = idempotencyKey,
                           !.pc = IF idempotencyKey # null
                                  THEN "dedQuery" ELSE "dedTxn"])
    /\ UNCHANGED <<users, credits_ledger, processed_webhooks, PAYPAL_CONFIG, generations, limits, mastery, study>>

\* existingLedger query; !empty returns { success: true, duplicate: true }
DeductCredits_query(p) ==
    /\ proc[p].pc = "dedQuery"
    /\ IF ExistingLedger(proc[p].idempotencyKey)
       THEN Set(p, AfterCredits(proc[p], Duplicate))
       ELSE Set(p, [proc[p] EXCEPT !.pc = "dedTxn"])
    /\ UNCHANGED <<users, credits_ledger, processed_webhooks, calls, PAYPAL_CONFIG, generations, limits, mastery, study>>

\* db.runTransaction: read, check, update the balance and add the entry.
DeductCredits_transaction(p) ==
    /\ proc[p].pc = "dedTxn"
    /\ LET c == proc[p]
           userDoc == users[c.userId]
           outcome == DeductOutcome(userDoc, c.amount)
           newBalance == BalanceOrZero(userDoc) - c.amount
       IN  IF outcome # "ok"
           THEN /\ Set(p, AfterCredits(c, Failure(outcome)))
                /\ UNCHANGED <<users, credits_ledger>>
           ELSE /\ users' = [users EXCEPT ![c.userId] =
                                [@ EXCEPT !.hasBalance = TRUE,
                                          !.credits_balance = newBalance]]
                /\ credits_ledger' =
                       ledgerAdd(
                              DeductionEntry(c.userId, c.amount, c.description,
                                             c.idempotencyKey, newBalance))
                /\ Set(p, AfterCredits(c, Success(newBalance)))
    /\ UNCHANGED <<processed_webhooks, calls, PAYPAL_CONFIG, generations, limits, mastery, study>>

----------------------------------------------------------------------------
(* addCredits(userId, amount, type, description, idempotencyKey, eventId)  *)

AddCredits(p, userId, amount, type, idempotencyKey) ==
    /\ Free(p)
    /\ calls < MaxCalls
    /\ calls' = calls + 1
    /\ Set(p, [Idle EXCEPT !.op = "addCredits", !.userId = userId,
                           !.amount = amount, !.type = type,
                           !.description = "call",
                           !.idempotencyKey = idempotencyKey,
                           !.pc = "addQuery"])
    /\ UNCHANGED <<users, credits_ledger, processed_webhooks, PAYPAL_CONFIG, generations, limits, mastery, study>>

AddCredits_query(p) ==
    /\ proc[p].pc = "addQuery"
    /\ IF ExistingLedger(proc[p].idempotencyKey)
       THEN Set(p, AfterCredits(proc[p], Duplicate))
       ELSE Set(p, [proc[p] EXCEPT !.pc = "addTxn"])
    /\ UNCHANGED <<users, credits_ledger, processed_webhooks, calls, PAYPAL_CONFIG, generations, limits, mastery, study>>

\* The users document the addCredits transaction writes.
GrantedDoc(userDoc, type, newBalance) ==
    IF userDoc.exists
    THEN [userDoc EXCEPT !.hasBalance = TRUE,
                         !.credits_balance = newBalance,
                         !.plan = IF type = "purchase" THEN "pro"
                                  ELSE PlanOrFree(userDoc)]
    ELSE [exists |-> TRUE,
          plan |-> IF type = "purchase" THEN "pro" ELSE "free",
          hasBalance |-> TRUE, credits_balance |-> newBalance,
          paypalSubscriptionId |-> null,
          manualProCreditsGranted |-> FALSE]

AddCredits_transaction(p) ==
    /\ proc[p].pc = "addTxn"
    /\ LET c == proc[p]
           userDoc == users[c.userId]
           currentBalance == IF userDoc.exists THEN BalanceOrZero(userDoc)
                             ELSE 0
           newBalance == ClampedBalance(currentBalance, c.amount)
       IN  /\ users' = [users EXCEPT ![c.userId] =
                           GrantedDoc(userDoc, c.type, newBalance)]
           /\ credits_ledger' =
                  ledgerAdd(
                         GrantEntry(c.userId, c.amount, c.type, c.description,
                                    c.idempotencyKey, c.event.id, newBalance))
           /\ Set(p, AfterCredits(c, Success(newBalance)))
    /\ UNCHANGED <<processed_webhooks, calls, PAYPAL_CONFIG, generations, limits, mastery, study>>

\* The transaction layer is unreachable: runTransaction rejects, nothing is
\* written, and the catch block returns { success: false, error }.
Transaction_unavailable(p) ==
    /\ proc[p].pc \in {"dedTxn", "addTxn"}
    /\ Set(p, AfterCredits(proc[p], Failure(StoreError)))
    /\ UNCHANGED <<users, credits_ledger, processed_webhooks, calls, PAYPAL_CONFIG, generations, limits, mastery, study>>

----------------------------------------------------------------------------
(* POST /api/paypal/webhook                                                *)

\* Mutant of WebhookGrant: a refund takes back the free allotment.
WebhookGrantRefundsFreeAllotment(call, userId) ==
    LET purchase == call.event.event_type \in PurchaseEvents
    IN  [call EXCEPT
           !.userId = userId,
           !.amount = IF purchase THEN PLAN_CREDITS.pro
                      ELSE 0 - PLAN_CREDITS.free,
           !.type = IF purchase THEN "purchase" ELSE "refund",
           !.description = IF purchase THEN "Pro subscription payment"
                           ELSE "Payment refunded/reversed",
           !.idempotencyKey = IF purchase THEN "paypal_" \o call.event.id
                              ELSE "paypal_refund_" \o call.event.id,
           !.pc = "addQuery"]

\* Mutant of WebhookGrant: a purchase grants the free allotment.
WebhookGrantFreeAllotment(call, userId) ==
    LET purchase == call.event.event_type \in PurchaseEvents
    IN  [call EXCEPT
           !.userId = userId,
           !.amount = IF purchase THEN PLAN_CREDITS.free
                      ELSE 0 - PLAN_CREDITS.pro,
           !.type = IF purchase THEN "purchase" ELSE "refund",
           !.description = IF purchase THEN "Pro subscription payment"
                           ELSE "Payment refunded/reversed",
           !.idempotencyKey = IF purchase THEN "paypal_" \o call.event.id
                              ELSE "paypal_refund_" \o call.event.id,
           !.pc = "addQuery"]

\* The addCredits call of the handler for a purchase or a refund event.
WebhookGrant(call, userId) ==
    LET purchase == call.event.event_type \in PurchaseEvents
    IN  [call EXCEPT
           !.userId = userId,
           !.amount = IF purchase THEN PLAN_CREDITS.pro
                      ELSE 0 - PLAN_CREDITS.pro,
           !.type = IF purchase THEN "purchase" ELSE "refund",
           !.description = IF purchase THEN "Pro subscription payment"
                           ELSE "Payment refunded/reversed",
           !.idempotencyKey = IF purchase THEN "paypal_" \o call.event.id
                              ELSE "paypal_refund_" \o call.event.id,
           !.pc = "addQuery"]

\* verifyPayPalWebhook: false when a credential is missing, otherwise the
\* verdict of PayPal's verify-webhook-signature (a failed call counts as
\* a verdict other than SUCCESS).
verifyPayPalWebhook(verification_status) ==
    IF PAYPAL_CONFIG.clientId = null \/ PAYPAL_CONFIG.webhookId = null
    THEN FALSE
    ELSE verification_status = "SUCCESS"

VerificationStatuses == {"SUCCESS", "FAILURE"}

\* Mutant of isWebhookProcessed: the record is never found.
isWebhookProcessedNever(eventId) == FALSE

\* Mutant of isWebhookProcessed: a record counts only when the event has an
\* entry in the ledger.
isWebhookProcessedGranted(eventId) ==
    /\ eventId \in processed_webhooks
    /\ \E i \in DOMAIN credits_ledger :
          credits_ledger[i].paypalEventId = eventId

\* isWebhookProcessed(eventId): doc.exists
isWebhookProcessed(eventId) == eventId \in processed_webhooks

\* Mutant of markWebhookProcessed: the record is not written.
markWebhookProcessedNothing(eventId) == processed_webhooks

\* markWebhookProcessed(eventId, eventType): the collection after the set
markWebhookProcessed(eventId) == processed_webhooks \cup {eventId}

\* Mutant of InvalidSignature: the handler goes on to the dedup lookup.
InvalidSignatureIgnored(call) == [call EXCEPT !.pc = "whProcessed"]

\* if (!isValid) return res.status(401).send('Invalid signature')
InvalidSignature(call) == [call EXCEPT !.pc = "done", !.status = 401]

\* The catch block of the handler: res.status(200).send('OK')
Caught(call) ==
    [call EXCEPT !.pc = "done", !.status = 200, !.exception = TRUE]

\* app.use(express.json()) runs before the route: a body that is not JSON
\* is refused with 400 by the parser and the handler is never called.
express_json(p) ==
    /\ Free(p)
    /\ calls < MaxCalls
    /\ calls' = calls + 1
    /\ Set(p, [Idle EXCEPT !.op = "webhook", !.pc = "done", !.status = 400])
    /\ UNCHANGED <<users, credits_ledger, processed_webhooks, PAYPAL_CONFIG, generations, limits, mastery, study>>

\* The request arrives with a JSON body and verifyPayPalWebhook answers.
\* Invalid: 401 and nothing else happens.
Webhook_verify(p, event, verification_status) ==
    /\ Free(p)
    /\ calls < MaxCalls
    /\ calls' = calls + 1
    /\ LET isValid == verifyPayPalWebhook(verification_status)
           call == [Idle EXCEPT !.op = "webhook", !.event = event,
                                !.isValid = isValid]
       IN  IF ~isValid
           THEN Set(p, InvalidSignature(call))
           ELSE Set(p, [call EXCEPT !.pc = "whProcessed"])
    /\ UNCHANGED <<users, credits_ledger, processed_webhooks, PAYPAL_CONFIG, generations, limits, mastery, study>>

\* isWebhookProcessed(eventId), then the switch up to its first await.
Webhook_isProcessed(p) ==
    /\ proc[p].pc = "whProcessed"
    /\ LET c == proc[p]
           t == c.event.event_type
       IN  IF isWebhookProcessed(c.event.id)
           THEN Set(p, [c EXCEPT !.pc = "done", !.status = 200])
           ELSE IF c.event.resourceId = null
           THEN Set(p, [c EXCEPT !.pc = "whMark"])
           ELSE IF t \in PurchaseEvents /\ c.event.custom_id # null
           THEN Set(p, WebhookGrant(c, c.event.custom_id))
           ELSE IF t \in PurchaseEvents \cup RefundEvents \cup CancelEvents
           THEN Set(p, [c EXCEPT !.pc = "whLookup"])
           ELSE Set(p, [c EXCEPT !.pc = "whMark"])
    /\ UNCHANGED <<users, credits_ledger, processed_webhooks, calls, PAYPAL_CONFIG, generations, limits, mastery, study>>

\* users.where('paypalSubscriptionId', '==', subscriptionId).limit(1).get()
Webhook_lookup(p) ==
    /\ proc[p].pc = "whLookup"
    /\ LET c == proc[p]
           found == UsersWithSubscription(c.event.resourceId)
       IN  IF found = {}
           THEN Set(p, [c EXCEPT !.pc = "whMark"])
           ELSE \E userId \in found :
                   IF c.event.event_type \in CancelEvents
                   THEN Set(p, [c EXCEPT !.userId = userId,
                                         !.pc = "whDowngrade"])
                   ELSE Set(p, WebhookGrant(c, userId))
    /\ UNCHANGED <<users, credits_ledger, processed_webhooks, calls, PAYPAL_CONFIG, generations, limits, mastery, study>>

\* users.doc(userId).update({ paypalSubscriptionId, plan: 'pro' }) after the
\* addCredits call, whatever it returned.  update() of a missing document
\* rejects: the catch block answers 200 and no record is written.
Webhook_update(p) ==
    /\ proc[p].pc = "whUpdate"
    /\ LET c == proc[p]
       IN  IF users[c.userId].exists
           THEN /\ users' = [users EXCEPT ![c.userId] =
                                [@ EXCEPT !.paypalSubscriptionId =
                                              c.event.resourceId,
                                          !.plan = "pro"]]
                /\ Set(p, [c EXCEPT !.pc = "whMark"])
           ELSE /\ Set(p, Caught(c))
                /\ UNCHANGED users
    /\ UNCHANGED <<credits_ledger, processed_webhooks, calls, PAYPAL_CONFIG, generations, limits, mastery, study>>

\* Mutant of Downgraded: the downgrade also takes the credits away.
DowngradedWithoutCredits(userDoc) ==
    [userDoc EXCEPT !.plan = "free", !.credits_balance = 0]

\* The document after update({ plan: 'free', subscriptionCancelledAt }).
Downgraded(userDoc) == [userDoc EXCEPT !.plan = "free"]

\* userDoc.ref.update({ plan: 'free', subscriptionCancelledAt })
Webhook_downgrade(p) ==
    /\ proc[p].pc = "whDowngrade"
    /\ users' = [users EXCEPT ![proc[p].userId] = Downgraded(@)]
    /\ Set(p, [proc[p] EXCEPT !.pc = "whMark"])
    /\ UNCHANGED <<credits_ledger, processed_webhooks, calls, PAYPAL_CONFIG, generations, limits, mastery, study>>

\* markWebhookProcessed(eventId, event_type); res.status(200).send('OK')
Webhook_mark(p) ==
    /\ proc[p].pc = "whMark"
    /\ processed_webhooks' = markWebhookProcessed(proc[p].event.id)
    /\ Set(p, [proc[p] EXCEPT !.pc = "done", !.status = 200])
    /\ UNCHANGED <<users, credits_ledger, calls, PAYPAL_CONFIG, generations, limits, mastery, study>>

\* The positions of the handler between the dedup lookup and the record
\* write at which a store call can reject.
ApplyingPositions == {"whLookup", "addQuery", "whUpdate", "whDowngrade"}

WebhookAwaits == {"whProcessed", "whMark"} \cup ApplyingPositions

\* Mutant of CaughtRecords: the catch block records the event.
CaughtAndRecorded(eventId) == processed_webhooks \cup {eventId}

\* What the catch block writes to processed_webhooks: nothing.
CaughtRecords(eventId) == processed_webhooks

\* A store call of the handler rejects (the idempotency-key query of
\* addCredits is outside its try block, so its rejection reaches the
\* handler too): the catch block logs and answers 200.
Webhook_exception(p) ==
    /\ proc[p].op = "webhook"
    /\ proc[p].pc \in WebhookAwaits
    /\ processed_webhooks' = CaughtRecords(proc[p].event.id)
    /\ Set(p, Caught(proc[p]))
    /\ UNCHANGED <<users, credits_ledger, calls, PAYPAL_CONFIG, generations, limits, mastery, study>>

----------------------------------------------------------------------------
(* POST /api/generate-plan                                                 *)

\* The generation document with the given id is in the collection.
Stored(generationId) ==
    /\ generationId \in DOMAIN generations
    /\ generations[generationId].stored

\* The request arrives.  Without a file it is answered 400; otherwise the
\* route calls getCreditsBalance, whose first await is the read of the
\* account.
GeneratePlan(p, userId, hasFile) ==
    /\ Free(p)
    /\ calls < MaxCalls
    /\ calls' = calls + 1
    /\ LET call == [Idle EXCEPT !.op = "generatePlan", !.userId = userId]
       IN  IF ~hasFile
           THEN Set(p, [call EXCEPT !.pc = "done", !.status = 400])
           ELSE Set(p, BalanceRead(call))
    /\ UNCHANGED <<users, credits_ledger, processed_webhooks, PAYPAL_CONFIG, generations, limits, mastery, study>>

\* Extraction, prompt and the AI-provider call: a study plan, or an error
\* that the catch block answers with an error status.
GeneratePlan_ai(p) ==
    /\ proc[p].pc = "genAI"
    /\ \E planned \in BOOLEAN :
          IF planned
          THEN Set(p, [proc[p] EXCEPT !.pc = "genStore"])
          ELSE Set(p, [proc[p] EXCEPT !.pc = "done", !.status = 500])
    /\ UNCHANGED <<users, credits_ledger, processed_webhooks, calls, PAYPAL_CONFIG, generations, limits, mastery, study>>

\* db.collection('generations').add(...), then the call
\* deductCredits(userId, 1, ..., `gen_${docRef.id}`).
GeneratePlan_store(p) ==
    /\ proc[p].pc = "genStore"
    /\ LET generationId == Len(generations) + 1
       IN  /\ generations' = Append(generations,
                                    [userId |-> proc[p].userId,
                                     stored |-> TRUE,
                                     needs_review |-> FALSE])
           /\ Set(p, [proc[p] EXCEPT
                        !.generationId = generationId,
                        !.amount = 1,
                        !.type = "deduction",
                        !.description = "Study plan generation",
                        !.idempotencyKey = "gen_" \o ToString(generationId),
                        !.pc = "dedQuery"])
    /\ UNCHANGED <<users, credits_ledger, processed_webhooks, calls, PAYPAL_CONFIG, limits, mastery, study>>

\* Mutant of Removed: the generation stays in the collection.
RemovedNothing(generationIds) == generations

\* The collection after the documents with these ids are deleted.
Removed(generationIds) ==
    [g \in DOMAIN generations |->
        IF g \in generationIds
        THEN [generations[g] EXCEPT !.stored = FALSE]
        ELSE generations[g]]

\* The deduction failed: docRef.delete(), then res.status(402).
GeneratePlan_delete(p) ==
    /\ proc[p].pc = "genDelete"
    /\ generations' = Removed({proc[p].generationId})
    /\ Set(p, [proc[p] EXCEPT !.pc = "done", !.status = 402])
    /\ UNCHANGED <<users, credits_ledger, processed_webhooks, calls, PAYPAL_CONFIG, limits, mastery, study>>

----------------------------------------------------------------------------
(* POST /api/chat                                                          *)

\* The deduction entries of the user that the rate limiter counts.
recentMsgCount(userId) ==
    Cardinality({i \in DOMAIN credits_ledger :
                    /\ credits_ledger[i].userId = userId
                    /\ credits_ledger[i].type = "deduction"
                    /\ credits_ledger[i].description = "AI Chat Interaction"})

\* The request arrives: 400 without a messages array, 429 over the rate
\* limit, otherwise deductCredits(userId, 1, 'AI Chat Interaction').
Chat(p, userId, hasMessages) ==
    /\ Free(p)
    /\ calls < MaxCalls
    /\ calls' = calls + 1
    /\ LET call == [Idle EXCEPT !.op = "chat", !.userId = userId]
       IN  IF ~hasMessages
           THEN Set(p, [call EXCEPT !.pc = "done", !.status = 400])
           ELSE IF recentMsgCount(userId) >= 20
           THEN Set(p, [call EXCEPT !.pc = "done", !.status = 429])
           ELSE Set(p, [call EXCEPT !.amount = 1,
                                    !.type = "deduction",
                                    !.description = "AI Chat Interaction",
                                    !.pc = "dedTxn"])
    /\ UNCHANGED <<users, credits_ledger, processed_webhooks, PAYPAL_CONFIG, generations, limits, mastery, study>>

\* What the request is answered with after the deduction: 400 when no
\* message is valid, the AI message, or an error of the AI provider.
ChatStatuses == {200, 400, 500}

Chat_ai(p) ==
    /\ proc[p].pc = "chatAI"
    /\ \E status \in ChatStatuses :
          Set(p, [proc[p] EXCEPT !.pc = "done", !.status = status])
    /\ UNCHANGED <<users, credits_ledger, processed_webhooks, calls, PAYPAL_CONFIG, generations, limits, mastery, study>>

----------------------------------------------------------------------------
(* PUT /api/preferences and DELETE /api/account                            *)

\* Mutant of PreferencesMerged: set() without { merge: true }.
PreferencesReplaced(userDoc) == [NoDoc EXCEPT !.exists = TRUE]

\* The users document after set({ preferences }, { merge: true }): the
\* other fields of an existing document stay, a missing document is
\* created with the preferences alone.
PreferencesMerged(userDoc) ==
    IF userDoc.exists THEN userDoc ELSE [NoDoc EXCEPT !.exists = TRUE]

Preferences(p, userId) ==
    /\ Free(p)
    /\ calls < MaxCalls
    /\ calls' = calls + 1
    /\ users' = [users EXCEPT ![userId] = PreferencesMerged(@)]
    /\ Set(p, [Idle EXCEPT !.op = "preferences", !.userId = userId,
                           !.pc = "done", !.status = 200])
    /\ UNCHANGED <<credits_ledger, processed_webhooks, PAYPAL_CONFIG, generations, limits, mastery, study>>

\* admin.auth().deleteUser, then the query for the user's generations.
DeleteAccount(p, userId) ==
    /\ Free(p)
    /\ calls < MaxCalls
    /\ calls' = calls + 1
    /\ Set(p, [Idle EXCEPT
                 !.op = "deleteAccount", !.userId = userId,
                 !.snapshot = {g \in DOMAIN generations :
                                  /\ generations[g].stored
                                  /\ generations[g].userId = userId},
                 !.pc = "delCommit"])
    /\ UNCHANGED <<users, credits_ledger, processed_webhooks, PAYPAL_CONFIG, generations, limits, mastery, study>>

\* batch.commit(): the generations found are deleted; nothing else is.
DeleteAccount_commit(p) ==
    /\ proc[p].pc = "delCommit"
    /\ generations' = Removed(proc[p].snapshot)
    /\ Set(p, [proc[p] EXCEPT !.pc = "done", !.status = 200])
    /\ UNCHANGED <<users, credits_ledger, processed_webhooks, calls, PAYPAL_CONFIG, limits, mastery, study>>

----------------------------------------------------------------------------
(* POST /api/quiz/submit                                                   *)

\* Math.round(score * (1 - 0.3) + resultValue * 0.3) in double arithmetic:
\* 45 * 0.7 and 85 * 0.7 fall just below .5 and round down.
WeightedScore(score, isCorrect) ==
    LET resultValue == IF isCorrect THEN 100 ELSE 0
    IN  IF ~isCorrect /\ score \in {45, 85}
        THEN (7 * score) \div 10
        ELSE (7 * score + 3 * resultValue + 5) \div 10

\* Mutant of Answered: a correct answer leaves consecutive_failures alone.
AnsweredKeepsFailures(masteryData, isCorrect) ==
    LET score == WeightedScore(masteryData.score, isCorrect)
    IN  [exists |-> TRUE, score |-> score, level |-> masteryData.level,
         unstable |-> ~isCorrect,
         consecutive_failures |->
             IF isCorrect THEN masteryData.consecutive_failures
             ELSE masteryData.consecutive_failures + 1,
         history |-> Append(masteryData.history, isCorrect)]

\* masteryData after the handler has applied one answer to it.
Answered(masteryData, isCorrect) ==
    LET score == WeightedScore(masteryData.score, isCorrect)
        promoted == IF score > 85 /\ masteryData.level < 3
                    THEN masteryData.level + 1 ELSE masteryData.level
        level == IF score < 40 /\ promoted > 1
                 THEN promoted - 1 ELSE promoted
        pushed == Append(masteryData.history, isCorrect)
    IN  [exists |-> TRUE, score |-> score, level |-> level,
         unstable |-> ~isCorrect,
         consecutive_failures |->
             IF isCorrect THEN 0
             ELSE masteryData.consecutive_failures + 1,
         history |-> IF Len(pushed) > 20 THEN Tail(pushed) ELSE pushed]

\* The request arrives: 400 when a field is missing or the question index
\* is invalid, 404 when the generation is missing or is another user's.
QuizSubmit(p, userId, generationId, isCorrect, wellFormed) ==
    /\ Free(p)
    /\ calls < MaxCalls
    /\ calls' = calls + 1
    /\ LET call == [Idle EXCEPT !.op = "quizSubmit", !.userId = userId,
                                !.generationId = generationId,
                                !.isCorrect = isCorrect]
       IN  IF ~wellFormed
           THEN Set(p, [call EXCEPT !.pc = "done", !.status = 400])
           ELSE IF ~Stored(generationId)
                   \/ generations[generationId].userId # userId
           THEN Set(p, [call EXCEPT !.pc = "done", !.status = 404])
           ELSE Set(p, [call EXCEPT !.pc = "quizRead"])
    /\ UNCHANGED <<users, credits_ledger, processed_webhooks, PAYPAL_CONFIG, generations, limits, mastery, study>>

\* masteryRef.get()
QuizSubmit_read(p) ==
    /\ proc[p].pc = "quizRead"
    /\ Set(p, [proc[p] EXCEPT !.masteryData = mastery[proc[p].userId],
                              !.pc = "quizSet"])
    /\ UNCHANGED <<users, credits_ledger, processed_webhooks, calls, PAYPAL_CONFIG, generations, limits, mastery, study>>

\* masteryRef.set(masteryData) with the answer applied.
QuizSubmit_set(p) ==
    /\ proc[p].pc = "quizSet"
    /\ LET masteryData == Answered(proc[p].masteryData, proc[p].isCorrect)
       IN  /\ mastery' = [mastery EXCEPT ![proc[p].userId] = masteryData]
           /\ IF proc[p].isCorrect
              THEN Set(p, [proc[p] EXCEPT !.masteryData = masteryData,
                                          !.pc = "done", !.status = 200])
              ELSE Set(p, [proc[p] EXCEPT !.masteryData = masteryData,
                                          !.pc = "quizFlag"])
    /\ UNCHANGED <<users, credits_ledger, processed_webhooks, calls, PAYPAL_CONFIG, generations, limits, study>>

\* generations.doc(generationId).update({ needs_review: true }) after an
\* incorrect answer; the update of a deleted document rejects: 500.
QuizSubmit_flag(p) ==
    /\ proc[p].pc = "quizFlag"
    /\ IF Stored(proc[p].generationId)
       THEN /\ generations' = [generations EXCEPT
                                 ![proc[p].generationId].needs_review = TRUE]
            /\ Set(p, [proc[p] EXCEPT !.pc = "done", !.status = 200])
       ELSE /\ UNCHANGED generations
            /\ Set(p, [proc[p] EXCEPT !.pc = "done", !.status = 500])
    /\ UNCHANGED <<users, credits_ledger, processed_webhooks, calls, PAYPAL_CONFIG, limits, mastery, study>>

----------------------------------------------------------------------------
(* The system: any number of requests, interleaved at their awaits.        *)

\* A request arrives.
Start(p) ==
    \/ \E userId \in UserIds : GetCreditsBalance_get(p, userId)
    \/ \E userId \in UserIds, amount \in DeductAmounts,
          key \in CallerKeys \cup {null} :
            DeductCredits(p, userId, amount, key)
    \/ \E userId \in UserIds, amount \in GrantAmounts,
          type \in GrantTypes, key \in CallerKeys :
            AddCredits(p, userId, amount, type, key)
    \/ \E event \in Events, verification_status \in VerificationStatuses :
            Webhook_verify(p, event, verification_status)
    \/ express_json(p)

\* A request in flight resumes after an await.
Step(p) ==
    \/ GetCreditsBalance_set(p)
    \/ GetCreditsBalance_ledger(p)
    \/ GetCreditsBalance_update(p)
    \/ DeductCredits_query(p)
    \/ DeductCredits_transaction(p)
    \/ AddCredits_query(p)
    \/ AddCredits_transaction(p)
    \/ Transaction_unavailable(p)
    \/ Webhook_isProcessed(p)
    \/ Webhook_lookup(p)
    \/ Webhook_update(p)
    \/ Webhook_downgrade(p)
    \/ Webhook_mark(p)
    \/ Webhook_exception(p)

Next == \E p \in Procs : Start(p) \/ Step(p)

Spec == Init /\ [][Next]_vars

\* No request is in flight.
Quiescent == \A p \in Procs : Free(p)

\* The same requests, one after the other: a request arrives only when no
\* other is in flight.
SeqNext == \E p \in Procs : (Quiescent /\ Start(p)) \/ Step(p)

SeqSpec == Init /\ [][SeqNext]_vars

----------------------------------------------------------------------------
(* Two deductCredits calls racing on one account.  The account was created *)
(* by getCreditsBalance and has spent some of its free credits one by one. *)

RaceUser == "u1"
RaceKeys == {null, "k1", "k2"}

SeedLedger(spent) ==
    <<InitEntry(RaceUser)>> \o
    [i \in 1..spent |->
        DeductionEntry(RaceUser, 1, "seed", null, PLAN_CREDITS.free - i)]

RaceInit ==
    \E spent \in 0..PLAN_CREDITS.free :
        /\ users = [u \in UserIds |->
                      IF u = RaceUser
                      THEN [newUserData EXCEPT
                              !.credits_balance = PLAN_CREDITS.free - spent]
                      ELSE NoDoc]
        /\ credits_ledger = SeedLedger(spent)
        /\ processed_webhooks = {}
        /\ proc = [p \in Procs |-> Idle]
        /\ calls = 0
        /\ PAYPAL_CONFIG = Configured
        /\ generations = <<>>
        /\ mastery = [u \in UserIds |-> NoMastery]
        /\ limits = NoLimits
        /\ study = NoStudy

\* Each process makes one call, issued before any call has returned, so
\* that the calls overlap; keys, when given, are distinct.
RaceCall(p) ==
    /\ proc[p].pc = "idle"
    /\ \A q \in Procs : proc[q].pc # "done"
    /\ \E amount \in DeductAmounts, key \in RaceKeys :
          /\ key # null => \A q \in Procs : proc[q].idempotencyKey # key
          /\ DeductCredits(p, RaceUser, amount, key)

RaceNext ==
    \E p \in Procs :
        \/ RaceCall(p)
        \/ DeductCredits_query(p)
        \/ DeductCredits_transaction(p)

RaceSpec == RaceInit /\ [][RaceNext]_vars

----------------------------------------------------------------------------
(* The whole backend: the credits functions, the webhook and the routes    *)
(* that use or write the same collections, interleaved at their awaits.    *)

MaxRequests == 2

GenerationIds == 1 .. MaxRequests

\* A request arrives at one of the routes.
Request(p) ==
    \/ Start(p)
    \/ \E userId \in UserIds, hasFile \in BOOLEAN :
            GeneratePlan(p, userId, hasFile)
    \/ \E userId \in UserIds, hasMessages \in BOOLEAN :
            Chat(p, userId, hasMessages)
    \/ \E userId \in UserIds : Preferences(p, userId)
    \/ \E userId \in UserIds : DeleteAccount(p, userId)
    \/ \E userId \in UserIds, generationId \in GenerationIds,
          isCorrect \in BOOLEAN, wellFormed \in BOOLEAN :
            QuizSubmit(p, userId, generationId, isCorrect, wellFormed)

\* A request in flight resumes after an await.
Resume(p) ==
    \/ Step(p)
    \/ GeneratePlan_ai(p)
    \/ GeneratePlan_store(p)
    \/ GeneratePlan_delete(p)
    \/ Chat_ai(p)
    \/ DeleteAccount_commit(p)
    \/ QuizSubmit_read(p)
    \/ QuizSubmit_set(p)
    \/ QuizSubmit_flag(p)

AppNext == \E p \in Procs : (calls < MaxRequests /\ Request(p)) \/ Resume(p)

AppSpec == Init /\ [][AppNext]_vars

----------------------------------------------------------------------------
(* Concurrent generate-plan requests of one user.  The account is the one   *)
(* of RaceInit; each process makes one request with a file.                *)

GateCall(p) ==
    /\ proc[p].pc = "idle"
    /\ GeneratePlan(p, RaceUser, TRUE)

GateRaceNext ==
    \E p \in Procs :
        \/ GateCall(p)
        \/ GeneratePlan_ai(p)
        \/ GeneratePlan_store(p)
        \/ DeductCredits_query(p)
        \/ DeductCredits_transaction(p)
        \/ Transaction_unavailable(p)
        \/ GeneratePlan_delete(p)

GateRaceSpec == RaceInit /\ [][GateRaceNext]_vars

----------------------------------------------------------------------------
(* Chat requests of one user near the rate limit.  The account was created *)
(* by the grant of a subscription-activated event and has since sent some  *)
(* chat messages, all of them within the last hour.                        *)

ChatsSent == 18 .. 20

SeedChats(sent) ==
    <<GrantEntry(RaceUser, PLAN_CREDITS.pro, "purchase",
                 "Pro subscription payment", "paypal_e1", "e1",
                 PLAN_CREDITS.pro)>> \o
    [i \in 1..sent |->
        DeductionEntry(RaceUser, 1, "AI Chat Interaction", null,
                       PLAN_CREDITS.pro - i)]

ChatInit ==
    \E sent \in ChatsSent :
        /\ users = [u \in UserIds |->
                      IF u = RaceUser
                      THEN [exists |-> TRUE, plan |-> "pro",
                            hasBalance |-> TRUE,
                            credits_balance |-> PLAN_CREDITS.pro - sent,
                            paypalSubscriptionId |-> "s1",
                            manualProCreditsGranted |-> FALSE]
                      ELSE NoDoc]
        /\ credits_ledger = SeedChats(sent)
        /\ processed_webhooks = {"e1"}
        /\ proc = [p \in Procs |-> Idle]
        /\ calls = 0
        /\ PAYPAL_CONFIG = Configured
        /\ generations = <<>>
        /\ mastery = [u \in UserIds |-> NoMastery]
        /\ limits = NoLimits
        /\ study = NoStudy

ChatNext ==
    \E p \in Procs :
        \/ \E hasMessages \in BOOLEAN : Chat(p, RaceUser, hasMessages)
        \/ DeductCredits_transaction(p)
        \/ Transaction_unavailable(p)
        \/ Chat_ai(p)

ChatSpec == ChatInit /\ [][ChatNext]_vars

----------------------------------------------------------------------------
(* SequentialStudy (pages/dashboard/sequential-study.js): the object, the  *)
(* DOM it renders into its container and the clicks of the user.           *)
(*   sections, questions      types of the sections and of the quiz's      *)
(*                            questions (at most three)                    *)
(*   currentQuestion, score, enabled   content and next_button.enabled of  *)
(*                            the quiz section                             *)
(*   listeners, disabled      click listeners and disabled attribute of    *)
(*                            #continue-btn                                *)
(*   view                     what .section-content shows                  *)
(*   fadingOut, fadingIn      nextSection calls awaiting a fade            *)
(*   completed                invocations of onComplete                    *)

MaxClicks == 5
MaxQuestions == 4

QuestionTypes == {"multiple_choice", "short_answer"}

\* active_recall of the study plan: a list of questions.
ActiveRecalls ==
    UNION {[1..n -> QuestionTypes] : n \in 0..MaxQuestions}

\* active_recall.slice(0, 3)
quizQuestions(active_recall) ==
    SubSeq(active_recall, 1,
           IF Len(active_recall) < 3 THEN Len(active_recall) ELSE 3)

\* buildSections(): explanation, example if there are worked examples,
\* quiz if there are questions.
buildSections(worked_examples, active_recall) ==
    <<"explanation">>
        \o (IF worked_examples THEN <<"example">> ELSE <<>>)
        \o (IF Len(active_recall) > 0 THEN <<"quiz">> ELSE <<>>)

\* getCurrentSection() is not null.
HasSection(st) ==
    st.currentSectionIndex + 1 \in DOMAIN st.sections

InQuiz(st) ==
    HasSection(st) /\ st.sections[st.currentSectionIndex + 1] = "quiz"

\* section.next_button.enabled of the current section.
NextEnabled(st) == IF InQuiz(st) THEN st.enabled ELSE TRUE

\* renderSection(): nothing without a current section; otherwise the
\* container is rebuilt, the continue button gets its listener only when
\* enabled, and a quiz shows its current question.
renderSection(st) ==
    IF ~HasSection(st) THEN st
    ELSE [st EXCEPT !.listeners = IF NextEnabled(st) THEN 1 ELSE 0,
                    !.disabled = ~NextEnabled(st),
                    !.view = IF InQuiz(st) THEN "question" ELSE "content"]

\* new SequentialStudy(data), setOnComplete(callback), render(container)
StudyInit ==
    /\ users = [u \in UserIds |-> NoDoc]
    /\ credits_ledger = <<>>
    /\ processed_webhooks = {}
    /\ proc = [p \in Procs |-> Idle]
    /\ calls = 0
    /\ PAYPAL_CONFIG = Configured
    /\ generations = <<>>
    /\ mastery = [u \in UserIds |-> NoMastery]
    /\ limits = NoLimits
    /\ \E worked_examples \in BOOLEAN, active_recall \in ActiveRecalls :
          study = renderSection(
                    [NoStudy EXCEPT
                       !.sections = buildSections(worked_examples,
                                                  active_recall),
                       !.questions = quizQuestions(active_recall)])

Backend == <<users, credits_ledger, processed_webhooks, proc, calls,
             PAYPAL_CONFIG, generations, limits, mastery>>

\* n calls of nextSection up to their first await: at the last section
\* onComplete is invoked, otherwise the call awaits fadeOut().
nextSection(st, n) ==
    IF st.currentSectionIndex >= Len(st.sections) - 1
    THEN [st EXCEPT !.completed = @ + n]
    ELSE [st EXCEPT !.fadingOut = @ + n]

\* A click on #continue-btn: every listener calls nextSection().
ClickContinue ==
    /\ study.clicks < MaxClicks
    /\ ~study.disabled
    /\ study.listeners > 0
    /\ study' = [nextSection(study, study.listeners) EXCEPT !.clicks = @ + 1]
    /\ UNCHANGED Backend

\* The 400 ms of a fadeOut() are over: currentSectionIndex++, then fadeIn()
\* renders the section and starts its own timer.
FadeOut_resolve ==
    /\ study.fadingOut > 0
    /\ study' = [renderSection([study EXCEPT !.currentSectionIndex = @ + 1])
                    EXCEPT !.fadingOut = @ - 1, !.fadingIn = @ + 1]
    /\ UNCHANGED Backend

\* The 500 ms of a fadeIn() are over: the nextSection call returns.
FadeIn_resolve ==
    /\ study.fadingIn > 0
    /\ study' = [study EXCEPT !.fadingIn = @ - 1]
    /\ UNCHANGED Backend

\* The answer controls of the question shown accept a click: the options
\* of a multiple-choice question until they are disabled, the submit
\* button of a short answer for as long as the question is shown.
CanAnswer(st) ==
    /\ InQuiz(st)
    /\ \/ st.view = "question"
       \/ /\ st.view = "feedback"
          /\ st.questions[st.currentQuestion + 1] = "short_answer"

\* submitQuizAnswer(userAnswer): score++ when correct, feedback shown, the
\* options disabled.
submitQuizAnswer(st, isCorrect) ==
    [st EXCEPT !.score = IF isCorrect THEN @ + 1 ELSE @,
               !.view = "feedback"]

\* A click on a .quiz-option or on #submit-short-answer.
ClickAnswer(isCorrect) ==
    /\ study.clicks < MaxClicks
    /\ CanAnswer(study)
    /\ study' = [submitQuizAnswer(study, isCorrect) EXCEPT !.clicks = @ + 1]
    /\ UNCHANGED Backend

\* showQuizResults(): the results replace the question, next_button is
\* enabled and #continue-btn gets a listener.
showQuizResults(st) ==
    [st EXCEPT !.view = "results", !.enabled = TRUE,
               !.disabled = FALSE, !.listeners = @ + 1]

\* A click on #next-quiz-question: the next question is rendered, or the
\* results are shown after the last one.
ClickNextQuestion ==
    /\ study.clicks < MaxClicks
    /\ InQuiz(study)
    /\ study.view = "feedback"
    /\ study' =
          [(IF study.currentQuestion < Len(study.questions) - 1
            THEN renderSection([study EXCEPT !.currentQuestion = @ + 1])
            ELSE showQuizResults(study))
             EXCEPT !.clicks = @ + 1]
    /\ UNCHANGED Backend

StudyNext ==
    \/ ClickContinue
    \/ FadeOut_resolve
    \/ FadeIn_resolve
    \/ \E isCorrect \in BOOLEAN : ClickAnswer(isCorrect)
    \/ ClickNextQuestion

StudySpec == StudyInit /\ [][StudyNext]_vars

----------------------------------------------------------------------------
(* Quiz submissions of one user for one concept, one after the other, on   *)
(* top of the submissions the user has made before.                        *)

MaxAnswers == 21

\* No earlier answers, or about as many as the history keeps: the first k
\* are b, the others are not.
EarlierAnswers ==
    {[i \in 1..n |-> IF i <= k THEN b ELSE ~b] :
        n \in {0} \cup (MaxAnswers - 3 .. MaxAnswers),
        k \in 0..MaxAnswers, b \in BOOLEAN}

\* The mastery document after these answers were submitted in turn.
RECURSIVE Submitted(_)
Submitted(answers) ==
    IF answers = <<>> THEN NoMastery
    ELSE Answered(Submitted(SubSeq(answers, 1, Len(answers) - 1)),
                  answers[Len(answers)])

QuizInit ==
    /\ users = [u \in UserIds |-> NoDoc]
    /\ credits_ledger = <<>>
    /\ processed_webhooks = {}
    /\ proc = [p \in Procs |-> Idle]
    /\ calls = 0
    /\ PAYPAL_CONFIG = Configured
    /\ generations = <<[userId |-> "u1", stored |-> TRUE,
                        needs_review |-> FALSE]>>
    /\ limits = NoLimits
    /\ study = NoStudy
    /\ \E answers \in EarlierAnswers :
          mastery = [u \in UserIds |->
                        IF u = "u1" THEN Submitted(answers) ELSE NoMastery]

QuizNext ==
    \E p \in Procs :
        \/ /\ Quiescent
           /\ \E userId \in UserIds, generationId \in 1..2,
                 isCorrect \in BOOLEAN, wellFormed \in BOOLEAN :
                    QuizSubmit(p, userId, generationId, isCorrect, wellFormed)
        \/ QuizSubmit_read(p)
        \/ QuizSubmit_set(p)
        \/ QuizSubmit_flag(p)

QuizSpec == QuizInit /\ [][QuizNext]_vars

----------------------------------------------------------------------------
(* A call of canUpload with any plan and any number of uploads.            *)

LimitsInit ==
    /\ users = [u \in UserIds |-> NoDoc]
    /\ credits_ledger = <<>>
    /\ processed_webhooks = {}
    /\ proc = [p \in Procs |-> Idle]
    /\ calls = 0
    /\ PAYPAL_CONFIG = Configured
    /\ generations = <<>>
    /\ mastery = [u \in UserIds |-> NoMastery]
    /\ limits \in [plan : Plans, uploads : Uploads,
                   called : {FALSE}, result : {FALSE}]
    /\ study = NoStudy

CanUpload ==
    /\ ~limits.called
    /\ limits' = [limits EXCEPT !.called = TRUE,
                                !.result = canUpload(limits.plan,
                                                     limits.uploads)]
    /\ UNCHANGED <<users, credits_ledger, processed_webhooks, proc, calls,
                   PAYPAL_CONFIG, generations, mastery, study>>

LimitsSpec == LimitsInit /\ [][CanUpload]_vars

----------------------------------------------------------------------------
(* The webhook endpoint in a deployment whose PayPal credentials may be    *)
(* missing: PAYPAL_CONFIG takes what the environment holds.                *)

\* process.env.PAYPAL_CLIENT_ID / PAYPAL_WEBHOOK_ID, set or not.
Configurations ==
    {[clientId |-> c, webhookId |-> w] :
        c \in {null, "client"}, w \in {null, "webhook"}}

DeployInit ==
    /\ users = [u \in UserIds |-> NoDoc]
    /\ credits_ledger = <<>>
    /\ processed_webhooks = {}
    /\ proc = [p \in Procs |-> Idle]
    /\ calls = 0
    /\ PAYPAL_CONFIG \in Configurations
    /\ generations = <<>>
    /\ mastery = [u \in UserIds |-> NoMastery]
    /\ limits = NoLimits
    /\ study = NoStudy

\* A delivery arrives.
Deliver(p) ==
    \/ \E event \in Events, verification_status \in VerificationStatuses :
            Webhook_verify(p, event, verification_status)
    \/ express_json(p)

\* A delivery in flight resumes after an await.
Handle(p) ==
    \/ Webhook_isProcessed(p)
    \/ Webhook_lookup(p)
    \/ AddCredits_query(p)
    \/ AddCredits_transaction(p)
    \/ Transaction_unavailable(p)
    \/ Webhook_update(p)
    \/ Webhook_downgrade(p)
    \/ Webhook_mark(p)
    \/ Webhook_exception(p)

DeployNext == \E p \in Procs : Deliver(p) \/ Handle(p)

DeploySpec == DeployInit /\ [][DeployNext]_vars

----------------------------------------------------------------------------
(* Properties                                                              *)

\* The sum of `amount` over the first n ledger entries that belong to userId.
RECURSIVE LedgerSum(_, _)
LedgerSum(userId, n) ==
    IF n = 0 THEN 0
    ELSE LedgerSum(userId, n - 1)
         + (IF credits_ledger[n].userId = userId
            THEN credits_ledger[n].amount ELSE 0)

\* The request of p takes this step.
Steps(p) == proc'[p] # proc[p]

Last(seq) == seq[Len(seq)]

\* C1: every account's creditsBalance is an integer >= 0 in every reachable
\* state, under any interleaving of getCreditsBalance, deductCredits,
\* addCredits and webhook deliveries.
C1_BalanceNonNegative ==
    \A u \in UserIds :
        users[u].exists =>
            /\ users[u].hasBalance
            /\ users[u].credits_balance \in Nat

\* A grant of a negative amount was clamped: the account is at 0 although
\* its ledger sums to less.
C1_Witness ==
    \E u \in UserIds :
        /\ users[u].exists
        /\ users[u].credits_balance = 0
        /\ LedgerSum(u, Len(credits_ledger)) < 0

\* C2: between operations, the sum of `amount` over a user's ledger entries
\* equals the user's creditsBalance.
C2_LedgerSumIsBalance ==
    Quiescent =>
        \A u \in UserIds :
            users[u].exists =>
                LedgerSum(u, Len(credits_ledger)) = users[u].credits_balance

\* C3: replaying the ledger from 0 reproduces every entry's balanceAfter,
\* and every entry (the init grant too) carries one.
C3_ReplayReproducesBalanceAfter ==
    \A i \in DOMAIN credits_ledger :
        /\ credits_ledger[i].hasBalanceAfter
        /\ credits_ledger[i].balanceAfter =
               LedgerSum(credits_ledger[i].userId, i)

\* C4: at most one ledger entry carries any given non-null idempotencyKey,
\* under any interleaving of concurrent calls.
C4_KeyIsUnique ==
    \A i, j \in DOMAIN credits_ledger :
        (i # j /\ credits_ledger[i].idempotencyKey # null)
            => credits_ledger[i].idempotencyKey
                   # credits_ledger[j].idempotencyKey

\* The deductCredits call of p has returned a success that is no duplicate.
Deducted(p) ==
    /\ proc[p].op = "deductCredits"
    /\ proc[p].pc = "done"
    /\ proc[p].result.success
    /\ ~proc[p].result.duplicate

\* The total the finished calls of the processes in S have deducted.
RECURSIVE SumDeducted(_)
SumDeducted(S) ==
    IF S = {} THEN 0
    ELSE LET p == CHOOSE q \in S : TRUE
         IN  (IF Deducted(p) THEN proc[p].amount ELSE 0)
             + SumDeducted(S \ {p})

\* The balance the racing calls started from.
RaceStartBalance ==
    PLAN_CREDITS.free
    - Cardinality({i \in DOMAIN credits_ledger :
                      credits_ledger[i].description = "seed"})

RaceEntries ==
    {i \in DOMAIN credits_ledger :
        /\ credits_ledger[i].type = "deduction"
        /\ credits_ledger[i].description = "call"}

BothDeductOne == \A p \in Procs : proc[p].pc = "done" /\ proc[p].amount = 1

\* C5: concurrent deductCredits calls never succeed for more than the
\* balance they started from; two calls for 1 on a balance of 1 end with
\* exactly one success, one 'Insufficient credits', balance 0 and one new
\* deduction entry.
C5_ConcurrentDeductionsSerialized ==
    /\ SumDeducted(Procs) <= RaceStartBalance
    /\ users[RaceUser].credits_balance
           = RaceStartBalance - SumDeducted(Procs)
    /\ (RaceStartBalance = 1 /\ BothDeductOne) =>
          /\ \E p \in Procs :
                /\ Deducted(p)
                /\ \A q \in Procs \ {p} :
                      /\ ~proc[q].result.success
                      /\ proc[q].result.error = "Insufficient credits"
          /\ users[RaceUser].credits_balance = 0
          /\ Cardinality(RaceEntries) = 1

\* Both overlapping calls for 1 on a balance of 1 have returned.
C5_Witness ==
    /\ RaceStartBalance = 1
    /\ BothDeductOne
    /\ \E p \in Procs : Deducted(p)

\* C6: deductCredits called twice in sequence with the same key decrements
\* the balance once (one deduction entry) and both calls return the same
\* newBalance.
C6_SameKeySameNewBalance ==
    \A p, q \in Procs :
        ( /\ p # q
          /\ Deducted(p)
          /\ proc[q].op = "deductCredits" /\ proc[q].pc = "done"
          /\ proc[q].result.success
          /\ proc[q].userId = proc[p].userId
          /\ proc[q].amount = proc[p].amount
          /\ proc[p].idempotencyKey # null
          /\ proc[q].idempotencyKey = proc[p].idempotencyKey )
        => /\ Cardinality({i \in DOMAIN credits_ledger :
                  credits_ledger[i].idempotencyKey = proc[p].idempotencyKey})
              = 1
           /\ proc[q].result.hasNewBalance
           /\ proc[q].result.newBalance = proc[p].result.newBalance

\* C7: a deductCredits or addCredits call whose query answers and finds its
\* idempotencyKey on a ledger entry changes no account and no ledger entry
\* and returns a success flagged duplicate.
C7_DuplicateChangesNothing ==
    [][ \A p \in Procs :
          ( /\ proc[p].pc \in {"dedQuery", "addQuery"}
            /\ Steps(p)
            /\ ~proc'[p].exception
            /\ \E i \in DOMAIN credits_ledger :
                  credits_ledger[i].idempotencyKey = proc[p].idempotencyKey )
          => /\ users' = users
             /\ credits_ledger' = credits_ledger
             /\ processed_webhooks' = processed_webhooks
             /\ proc'[p].pc \notin {"dedTxn", "addTxn"}
             /\ proc'[p].result.success
             /\ proc'[p].result.duplicate
             /\ proc'[p].result.error = null ]_vars

\* A deductCredits call and an addCredits call have both returned duplicate.
C7_Witness ==
    \E p, q \in Procs :
        /\ proc[p].op = "deductCredits" /\ proc[p].pc = "done"
        /\ proc[p].result.duplicate
        /\ proc[q].op = "addCredits" /\ proc[q].pc = "done"
        /\ proc[q].result.duplicate

\* C8: a deductCredits transaction for more than the balance fails with
\* 'Insufficient credits', one for a user without account with 'User not
\* found'; either way no account is created or changed and the ledger is
\* as before.
C8_FailedDeductionChangesNothing ==
    [][ \A p \in Procs :
          ( /\ proc[p].pc = "dedTxn"
            /\ Steps(p)
            /\ proc'[p].result.error # StoreError )
          => LET userDoc == users[proc[p].userId]
             IN  /\ ~userDoc.exists =>
                       /\ ~proc'[p].result.success
                       /\ proc'[p].result.error = "User not found"
                       /\ users' = users
                       /\ credits_ledger' = credits_ledger
                 /\ (userDoc.exists
                     /\ proc[p].amount > userDoc.credits_balance) =>
                       /\ ~proc'[p].result.success
                       /\ proc'[p].result.error = "Insufficient credits"
                       /\ users' = users
                       /\ credits_ledger' = credits_ledger ]_vars

\* One call has failed with 'Insufficient credits' and another with 'User
\* not found'.
C8_Witness ==
    \E p, q \in Procs :
        /\ proc[p].op = "deductCredits" /\ proc[p].pc = "done"
        /\ proc[p].result.error = "Insufficient credits"
        /\ proc[q].op = "deductCredits" /\ proc[q].pc = "done"
        /\ proc[q].result.error = "User not found"
        /\ ~users[proc[q].userId].exists

\* C9: a successful deductCredits transaction takes the balance from b to
\* b - amount and appends one entry (amount = -amount, 'deduction',
\* balanceAfter = b - amount) in the same step; a failed one changes
\* neither; no step appends a deduction entry without that balance change,
\* and no step of a deductCredits call changes an account without
\* appending the entry.
C9_DeductionIsAtomic ==
    [][ /\ \A p \in Procs :
              (proc[p].pc = "dedTxn" /\ Steps(p)) =>
                  LET u == proc[p].userId
                      b == users[u].credits_balance
                  IN  IF proc'[p].result.success
                      THEN /\ users' = [users EXCEPT ![u] =
                                  [@ EXCEPT !.credits_balance =
                                                b - proc[p].amount]]
                           /\ Len(credits_ledger') = Len(credits_ledger) + 1
                           /\ SubSeq(credits_ledger', 1, Len(credits_ledger))
                                  = credits_ledger
                           /\ Last(credits_ledger').userId = u
                           /\ Last(credits_ledger').amount = 0 - proc[p].amount
                           /\ Last(credits_ledger').type = "deduction"
                           /\ Last(credits_ledger').hasBalanceAfter
                           /\ Last(credits_ledger').balanceAfter
                                  = b - proc[p].amount
                           /\ proc'[p].result.newBalance = b - proc[p].amount
                      ELSE /\ users' = users
                           /\ credits_ledger' = credits_ledger
        /\ (credits_ledger' # credits_ledger
            /\ Last(credits_ledger').type = "deduction") =>
              \E p \in Procs :
                  /\ proc[p].pc = "dedTxn" /\ Steps(p)
                  /\ proc'[p].result.success
                  /\ users'[proc[p].userId].credits_balance
                         = users[proc[p].userId].credits_balance
                           + Last(credits_ledger').amount
        /\ \A p \in Procs :
              (proc[p].op = "deductCredits" /\ Steps(p) /\ users' # users)
                  => Len(credits_ledger') = Len(credits_ledger) + 1 ]_vars

\* A deduction has succeeded and its entry is the last of the ledger, and
\* another call's transaction has failed.
C9_Witness ==
    \E p, q \in Procs :
        /\ Deducted(p)
        /\ credits_ledger # <<>>
        /\ Last(credits_ledger).type = "deduction"
        /\ Last(credits_ledger).balanceAfter = proc[p].result.newBalance
        /\ proc[q].op = "deductCredits" /\ proc[q].pc = "done"
        /\ ~proc[q].result.success

\* C10: a non-duplicate addCredits transaction on a balance b (0 when the
\* account does not exist) with a signed amount sets the balance to
\* max(0, b + amount), records that value as balanceAfter and returns it;
\* the balance is 0 whenever b + amount < 0.
C10_GrantClampsAtZero ==
    [][ \A p \in Procs :
          (proc[p].pc = "addTxn" /\ Steps(p) /\ proc'[p].result.success) =>
              LET u == proc[p].userId
                  b == IF users[u].exists THEN users[u].credits_balance
                       ELSE 0
                  sum == b + proc[p].amount
              IN  /\ b >= 0
                  /\ users'[u].exists
                  /\ users'[u].credits_balance = IF sum >= 0 THEN sum ELSE 0
                  /\ sum < 0 => users'[u].credits_balance = 0
                  /\ Len(credits_ledger') = Len(credits_ledger) + 1
                  /\ Last(credits_ledger').userId = u
                  /\ Last(credits_ledger').amount = proc[p].amount
                  /\ Last(credits_ledger').hasBalanceAfter
                  /\ Last(credits_ledger').balanceAfter
                         = users'[u].credits_balance
                  /\ proc'[p].result.newBalance = users'[u].credits_balance
      ]_vars

\* A negative grant was clamped (the ledger of the account sums below 0 and
\* the account is at 0), and a positive grant has raised another balance.
C10_Witness ==
    /\ \E i \in DOMAIN credits_ledger :
          /\ credits_ledger[i].type # "deduction"
          /\ credits_ledger[i].amount < 0
          /\ credits_ledger[i].balanceAfter = 0
          /\ LedgerSum(credits_ledger[i].userId, i) < 0
    /\ \E i \in DOMAIN credits_ledger :
          /\ credits_ledger[i].type # "deduction"
          /\ credits_ledger[i].amount > 0
          /\ credits_ledger[i].hasBalanceAfter
          /\ credits_ledger[i].balanceAfter > credits_ledger[i].amount

----------------------------------------------------------------------------
(* Lazy provisioning by getCreditsBalance                                  *)

\* The init entries of a user in the ledger.
InitEntries(userId) ==
    {i \in DOMAIN credits_ledger :
        credits_ledger[i].idempotencyKey = "init_" \o userId}

\* The step that completes the provisioning of a user by request p.
Provisions(p) ==
    /\ proc[p].op = "getCreditsBalance"
    /\ proc[p].pc = "gcbLedger"
    /\ Steps(p)

\* What the call that provisions a user leaves behind and returns.
ProvisionedFree(p) ==
    LET userId == proc[p].userId
    IN  /\ users'[userId].exists
        /\ users'[userId].plan = "free"
        /\ users'[userId].hasBalance
        /\ users'[userId].credits_balance = 3
        /\ proc'[p].pc = "done"
        /\ proc'[p].userData.plan = "free"
        /\ proc'[p].userData.credits_balance = 3
        /\ Len(credits_ledger') = Len(credits_ledger) + 1
        /\ SubSeq(credits_ledger', 1, Len(credits_ledger)) = credits_ledger
        /\ Last(credits_ledger').userId = userId
        /\ Last(credits_ledger').type = "grant"
        /\ Last(credits_ledger').amount = 3
        /\ Last(credits_ledger').idempotencyKey = "init_" \o userId

\* A getCreditsBalance call provisions exactly when it found no account.
ProvisionsOnlyNew ==
    \A p \in Procs :
        proc[p].op = "getCreditsBalance" =>
            /\ proc[p].pc \in {"gcbSet", "gcbLedger"} =>
                   ~proc[p].userData.exists
            /\ proc[p].pc = "done" => users[proc[p].userId].exists

\* C11: when calls are made one after another, the getCreditsBalance call
\* that finds no account for a user creates it with plan 'free' and balance
\* 3, returns those values and appends one 'grant' entry of amount 3 with
\* key 'init_<userId>'; calls that find the account do not provision, so
\* no user ever has more than one init entry.
C11_FirstCallProvisionsOnce ==
    /\ [](ProvisionsOnlyNew
          /\ \A userId \in UserIds : Cardinality(InitEntries(userId)) <= 1)
    /\ [][\A p \in Procs : Provisions(p) => ProvisionedFree(p)]_vars

\* Two finished getCreditsBalance calls for one user, the first of which
\* provisioned the account, and one init entry.
C11_Witness ==
    \E p, q \in Procs :
        /\ p # q
        /\ proc[p].op = "getCreditsBalance" /\ proc[p].pc = "done"
        /\ proc[q].op = "getCreditsBalance" /\ proc[q].pc = "done"
        /\ proc[p].userId = proc[q].userId
        /\ proc[p].userData = newUserData
        /\ Cardinality(InitEntries(proc[p].userId)) = 1
        /\ Len(credits_ledger) = 1

\* C12: when concurrent getCreditsBalance calls for one new user both find
\* no account, one initialization persists: the user has one init entry.
C12_OneInitializationPersists ==
    \A userId \in UserIds :
        (\A p \in Procs : proc[p].op = "getCreditsBalance"
                          /\ proc[p].userId = userId
                          => proc[p].pc = "done")
        => Cardinality(InitEntries(userId)) <= 1

----------------------------------------------------------------------------
(* The webhook handler                                                     *)

\* The ledger entries written for an event.
EventEntries(eventId) ==
    {i \in DOMAIN credits_ledger : credits_ledger[i].paypalEventId = eventId}

\* A verified delivery that the handler has answered without an exception.
Delivered(p) ==
    /\ proc[p].op = "webhook"
    /\ proc[p].pc = "done"
    /\ proc[p].isValid
    /\ ~proc[p].exception

\* The addCredits call made for the delivery returned success.
Applied(p) == Delivered(p) /\ proc[p].result.success

PaypalKeyEntries(eventId) ==
    {i \in DOMAIN credits_ledger :
        credits_ledger[i].idempotencyKey = "paypal_" \o eventId}

\* The balance that the purchase entries of an event have added.
Granted(eventId) == PLAN_CREDITS.pro * Cardinality(PaypalKeyEntries(eventId))

\* C14: however the steps of concurrent deliveries of one verified
\* subscription-activated event interleave, the ledger holds at most one
\* entry with key 'paypal_<eventId>' and the event adds 40 at most once.
C14_ConcurrentDeliveriesGrantOnce ==
    \A event \in Events :
        event.event_type = "BILLING.SUBSCRIPTION.ACTIVATED"
        => /\ Cardinality(PaypalKeyEntries(event.id)) <= 1
           /\ Granted(event.id) <= 40

\* The event of a delivery is a purchase or a refund and its user was found.
GrantResolved(p) ==
    /\ proc[p].op = "webhook"
    /\ proc[p].event.event_type \in PurchaseEvents \cup RefundEvents
    /\ proc[p].userId # null

\* C15: a processed_webhooks record of a purchase or refund event whose
\* user was resolved exists only if the grant of the event is in the
\* ledger; a delivery whose addCredits call returned success: false leaves
\* no record.
C15_RecordOnlyAfterGrant ==
    \A p \in Procs :
        (GrantResolved(p) /\ proc[p].pc = "done"
              /\ proc[p].event.id \in processed_webhooks)
        => EventEntries(proc[p].event.id) # {}

\* The ledger entries that carry the idempotency key of the delivery's
\* addCredits call.
KeyEntries(p) ==
    {i \in DOMAIN credits_ledger :
        credits_ledger[i].idempotencyKey = proc[p].idempotencyKey}

\* Request p takes the step in which an exception thrown while the event
\* is being applied reaches the catch block.
ThrowsWhileApplying(p) ==
    /\ proc[p].op = "webhook"
    /\ proc[p].pc \in ApplyingPositions
    /\ proc'[p].exception

Unverified(call) ==
    /\ call.op = "webhook"
    /\ call.event.id # null
    /\ ~call.isValid

\* C17: a delivery whose signature verification fails is answered 401 at
\* once, and the step that receives it changes no account, no ledger entry
\* and no processed_webhooks record, so the event stays open for a validly
\* signed delivery.
C17_InvalidSignatureHasNoEffect ==
    /\ [](\A p \in Procs :
              Unverified(proc[p])
              => /\ proc[p].pc = "done"
                 /\ proc[p].status = 401
                 /\ proc[p].result = NoResult)
    /\ [][\A p \in Procs :
              (Unverified(proc'[p]) /\ Steps(p))
              => UNCHANGED <<users, credits_ledger, processed_webhooks>>]_vars

\* A rejected delivery of an event, and a verified delivery of the same
\* event that was applied and recorded.
C17_Witness ==
    \E p, q \in Procs :
        /\ Unverified(proc[p]) /\ proc[p].status = 401
        /\ Applied(q) /\ proc[q].result.hasNewBalance
        /\ proc[q].event.id = proc[p].event.id
        /\ Cardinality(EventEntries(proc[q].event.id)) = 1
        /\ proc[q].event.id \in processed_webhooks

\* C18: every webhook request is answered; the answer is 401 exactly when
\* the signature verification failed and 200 in every other case, a body
\* that cannot be parsed included.
C18_Only401OnInvalidSignature ==
    \A p \in Procs :
        /\ (proc[p].op = "webhook" /\ proc[p].pc = "done")
           => proc[p].status = IF Unverified(proc[p]) THEN 401 ELSE 200
        /\ (proc[p].op = "webhook" /\ proc[p].pc # "done")
           => ENABLED Handle(p)

\* A credential of PAYPAL_CONFIG is missing.
Unconfigured == PAYPAL_CONFIG.clientId = null \/ PAYPAL_CONFIG.webhookId = null

\* C19: when the client id or the webhook id is not configured, a
\* BILLING.SUBSCRIPTION.ACTIVATED delivery passes verification and is
\* answered 200, and unless a store call failed the custom_id user has an
\* account and the credits of the event.
C19_UnconfiguredSkipsVerification ==
    \A p \in Procs :
        (/\ Unconfigured
         /\ proc[p].op = "webhook" /\ proc[p].pc = "done"
         /\ proc[p].event.event_type = "BILLING.SUBSCRIPTION.ACTIVATED")
        => /\ proc[p].isValid
           /\ proc[p].status = 200
           /\ (~proc[p].exception /\ proc[p].result.error = null)
              => /\ users[proc[p].event.custom_id].exists
                 /\ EventEntries(proc[p].event.id) # {}

\* A delivery of a subscription-activated or payment-completed event.
Purchase(p) ==
    /\ proc[p].op = "webhook"
    /\ proc[p].event.event_type \in PurchaseEvents

\* The user a purchase event resolves to: custom_id, else the account that
\* stores the subscription id.
ResolvesTo(event, userId) ==
    IF event.custom_id # null
    THEN userId = event.custom_id
    ELSE /\ users[userId].exists
         /\ users[userId].paypalSubscriptionId = event.resourceId

\* The purchase events that have an entry in the ledger.
GrantedEvents ==
    {event \in Events :
        event.event_type \in PurchaseEvents /\ EventEntries(event.id) # {}}

RECURSIVE PurchaseSum(_)
\* The sum of the amounts of the first n ledger entries that are purchases.
PurchaseSum(n) ==
    IF n = 0 THEN 0
    ELSE PurchaseSum(n - 1) +
         (IF credits_ledger[n].type = "purchase"
             /\ credits_ledger[n].paypalEventId # null
          THEN credits_ledger[n].amount ELSE 0)

\* The step in which the grant of a purchase delivery commits.
GrantCommits(p) ==
    /\ Purchase(p)
    /\ proc[p].pc = "addTxn"
    /\ proc'[p].result.hasNewBalance

\* The step in which the handler updates the account after the grant.
AccountUpdated(p) ==
    /\ Purchase(p)
    /\ proc[p].pc = "whUpdate"
    /\ proc'[p].pc = "whMark"

----------------------------------------------------------------------------
(* Upload limits                                                           *)

\* C27: canUpload(plan, uploads) is true exactly when plan is 'pro', or
\* plan is 'free' and uploads < 3; for a missing plan and for any other
\* plan name it is false whatever the number of uploads.
C27_CanUploadByPlan ==
    limits.called =>
        (limits.result <=>
            \/ limits.plan = "pro"
            \/ limits.plan = "free" /\ limits.uploads < 3)

\* canUpload('free', 3) has returned false.
C27_Witness ==
    /\ limits.called
    /\ limits.plan = "free"
    /\ limits.uploads = 3
    /\ ~limits.result

----------------------------------------------------------------------------
(* Refunds, cancellations and unrecognized events                          *)

\* A verified delivery of a payment-refunded or payment-reversed event.
Refund(p) ==
    /\ proc[p].op = "webhook"
    /\ proc[p].isValid
    /\ proc[p].event.event_type \in RefundEvents

\* The ledger entries that carry the idempotency key of a refund event.
RefundKeyEntries(eventId) ==
    {i \in DOMAIN credits_ledger :
        credits_ledger[i].idempotencyKey = "paypal_refund_" \o eventId}

Cancellation(p) ==
    /\ proc[p].op = "webhook"
    /\ proc[p].isValid
    /\ proc[p].event.event_type \in CancelEvents

\* C22: with deliveries made one after another, a verified cancellation
\* event sets the plan of an account storing its subscription id to
\* 'free', leaves the balance of that account, every other account and the
\* whole ledger as they were, and no other step of the delivery changes an
\* account or the ledger.
C22_CancellationOnlyDowngrades ==
    [][\A p \in Procs :
         LET userId == proc[p].userId
         IN  /\ (Cancellation(p) /\ proc[p].pc = "whDowngrade"
                       /\ proc'[p].pc = "whMark")
                => /\ users[userId].exists
                   /\ users[userId].paypalSubscriptionId =
                          proc[p].event.resourceId
                   /\ users'[userId].plan = "free"
                   /\ users'[userId].hasBalance = users[userId].hasBalance
                   /\ users'[userId].credits_balance =
                          users[userId].credits_balance
                   /\ \A other \in UserIds \ {userId} :
                          users'[other] = users[other]
                   /\ credits_ledger' = credits_ledger
             /\ (Cancellation(p) /\ Steps(p)
                       /\ ~(proc[p].pc = "whDowngrade"
                            /\ proc'[p].pc = "whMark"))
                => UNCHANGED <<users, credits_ledger>>]_vars

\* A pro account with credits was downgraded by a cancellation event.
C22_Witness ==
    \E p \in Procs :
        /\ Cancellation(p) /\ Delivered(p)
        /\ proc[p].userId # null
        /\ users[proc[p].userId].plan = "free"
        /\ users[proc[p].userId].credits_balance = 40
        /\ proc[p].event.id \in processed_webhooks

\* A verified delivery of an event type the handler has no case for.
Unrecognized(p) ==
    /\ proc[p].op = "webhook"
    /\ proc[p].isValid
    /\ proc[p].event.event_type \notin
           PurchaseEvents \cup RefundEvents \cup CancelEvents

\* C29: with deliveries made one after another, a verified event of an
\* unrecognized type changes no account and no ledger entry, its handling
\* ends by writing the processed_webhooks record, and a delivery that finds
\* the record is answered 200 at once and writes nothing.
C29_UnrecognizedIsRecordedOnly ==
    /\ [][\A p \in Procs :
            /\ (Unrecognized(p) /\ Steps(p))
               => UNCHANGED <<users, credits_ledger>>
            /\ (Unrecognized(p) /\ proc[p].pc = "whProcessed" /\ Steps(p)
                      /\ ~proc'[p].exception)
               => IF proc[p].event.id \in processed_webhooks
                  THEN /\ proc'[p].pc = "done"
                       /\ proc'[p].status = 200
                       /\ UNCHANGED processed_webhooks
                  ELSE proc'[p].pc = "whMark"]_vars
    /\ [](\A p \in Procs :
              (Unrecognized(p) /\ Delivered(p))
              => /\ proc[p].status = 200
                 /\ proc[p].event.id \in processed_webhooks)

\* An unrecognized event was delivered twice; nothing but its record exists.
C29_Witness ==
    \E p, q \in Procs :
        /\ p # q
        /\ Unrecognized(p) /\ Delivered(p)
        /\ Unrecognized(q) /\ Delivered(q)
        /\ proc[p].event.id = proc[q].event.id
        /\ processed_webhooks = {proc[p].event.id}
        /\ credits_ledger = <<>>
        /\ \A u \in UserIds : ~users[u].exists

\* A generate-plan request with a file arrives at process p in this step.
GateArrives(p) ==
    /\ Free(p)
    /\ proc'[p] # proc[p]
    /\ proc'[p].op = "generatePlan"
    /\ proc'[p].status # 400

\* The step belongs to the gate of a generate-plan request: it ends before
\* the AI call or at the 403 answer.
GateStep(p) ==
    /\ proc'[p] # proc[p]
    /\ proc'[p].op = "generatePlan"
    /\ \/ proc'[p].pc \in {"gcbSet", "gcbLedger", "gcbUpdate", "genAI"}
       \/ proc'[p].status = 403

\* C23: a generate-plan request that arrives while the account's balance is
\* <= 0 is answered 403 with the account's plan and balance, and the step
\* changes no account, ledger entry or generation; a request that arrives
\* while the balance is > 0 is not answered 403; and no step of the gate
\* lowers a balance or appends a ledger entry of type 'deduction'.
C23_GateRejectsEmptyBalance ==
    [][\A p \in Procs :
          /\ GateArrives(p) =>
               LET userDoc == users[proc'[p].userId]
               IN  /\ userDoc.exists /\ userDoc.hasBalance
                          /\ userDoc.credits_balance <= 0 =>
                       /\ proc'[p].pc = "done"
                       /\ proc'[p].status = 403
                       /\ proc'[p].userData.plan = userDoc.plan
                       /\ proc'[p].userData.credits_balance
                              = userDoc.credits_balance
                       /\ UNCHANGED <<users, credits_ledger, generations>>
                   /\ userDoc.exists /\ userDoc.hasBalance
                          /\ userDoc.credits_balance > 0 =>
                       /\ proc'[p].status # 403
                       /\ proc'[p].pc \in {"genAI", "gcbUpdate"}
          /\ GateStep(p) =>
               /\ \A u \in UserIds :
                     users[u].exists /\ users[u].hasBalance =>
                        users'[u].credits_balance >= users[u].credits_balance
               /\ \A i \in DOMAIN credits_ledger' :
                     i > Len(credits_ledger) =>
                        credits_ledger'[i].type # "deduction"
      ]_vars

\* The ledger entries written under the idempotency key of a generation.
GenerationEntries(generationId) ==
    {i \in DOMAIN credits_ledger :
        credits_ledger[i].idempotencyKey = "gen_" \o ToString(generationId)}

\* The request at process p has been answered with this status.
Responded(p, op, status) ==
    /\ proc[p].op = op
    /\ proc[p].pc = "done"
    /\ proc[p].status = status

C25_LedgerAppendOnly ==
    [][/\ Len(credits_ledger') >= Len(credits_ledger)
       /\ SubSeq(credits_ledger', 1, Len(credits_ledger)) = credits_ledger
      ]_vars

\* A user's account deletion was answered and the ledger holds at least two
\* entries, one of them of that user.
C25_Witness ==
    \E p \in Procs :
        /\ Responded(p, "deleteAccount", 200)
        /\ Len(credits_ledger) >= 2
        /\ \E i \in DOMAIN credits_ledger :
              credits_ledger[i].userId = proc[p].userId

\* C26: in every reachable state each existing account has a plan in
\* {free, pro} and an integer creditsBalance, whichever operation created
\* the account.
C26_AccountsAreSeeded ==
    \A u \in UserIds :
        users[u].exists =>
            /\ users[u].plan \in {"free", "pro"}
            /\ users[u].hasBalance
            /\ users[u].credits_balance \in Int

\* The addCredits transaction of process p commits in this step.
AddCommits(p) ==
    /\ proc[p].pc = "addTxn"
    /\ proc'[p] # proc[p]
    /\ proc'[p].result.success

\* C28: the committing transaction of a non-duplicate addCredits call for a
\* user with no account creates the account in the step that appends the
\* ledger entry, with plan 'pro' when type is 'purchase' and 'free'
\* otherwise; for an existing account it sets plan to 'pro' when type is
\* 'purchase' and otherwise leaves the plan as it was.
C28_GrantSetsPlan ==
    [][\A p \in Procs :
          AddCommits(p) =>
             LET userId == proc[p].userId
                 purchase == proc[p].type = "purchase"
             IN  /\ Len(credits_ledger') = Len(credits_ledger) + 1
                 /\ Last(credits_ledger').userId = userId
                 /\ users'[userId].exists
                 /\ ~users[userId].exists =>
                       users'[userId].plan
                           = IF purchase THEN "pro" ELSE "free"
                 /\ users[userId].exists =>
                       users'[userId].plan
                           = IF purchase THEN "pro" ELSE users[userId].plan
      ]_vars

\* The positions at which a request is about to run a users write of
\* getCreditsBalance, deductCredits or addCredits.
BalanceWrites == {"gcbSet", "gcbUpdate", "dedTxn", "addTxn"}

\* C30: an account's creditsBalance changes only in a step of
\* getCreditsBalance, deductCredits or addCredits for that account; every
\* other step (the webhook's subscription-id update and downgrade, the
\* preferences update, the quiz submit, generation and account deletion)
\* leaves the creditsBalance of every account as it was.
C30_OnlyBalanceManagerWrites ==
    [][\A u \in UserIds :
          \/ /\ users'[u].hasBalance = users[u].hasBalance
             /\ users'[u].credits_balance = users[u].credits_balance
          \/ \E p \in Procs :
                /\ proc[p].pc \in BalanceWrites
                /\ proc[p].userId = u
                /\ proc'[p] # proc[p]
      ]_vars

\* Preferences were saved for an account that holds credits, and the credits
\* are still there.
C30_Witness ==
    \E p \in Procs :
        /\ Responded(p, "preferences", 200)
        /\ users[proc[p].userId].hasBalance
        /\ users[proc[p].userId].credits_balance > 0

\* The ledger holds the entry of a committed purchase grant for the user.
PurchaseCommitted(userId) ==
    \E i \in DOMAIN credits_ledger :
        /\ credits_ledger[i].userId = userId
        /\ credits_ledger[i].type = "purchase"

\* C32: once a purchase grant for a user has committed, the lazy
\* initialisation of a getCreditsBalance call for that user (its
\* userRef.set) does not reset the account's plan to 'free' nor its balance
\* to the free allotment: the step leaves plan and balance as they were.
C32_LazyInitKeepsPurchase ==
    [][\A p \in Procs :
          (proc[p].pc = "gcbSet" /\ Steps(p)
                /\ PurchaseCommitted(proc[p].userId))
          => /\ users'[proc[p].userId].plan = users[proc[p].userId].plan
             /\ users'[proc[p].userId].credits_balance
                    = users[proc[p].userId].credits_balance
      ]_vars

\* The user's 'pro' plan came from a webhook purchase: the ledger holds a
\* purchase entry of a PayPal event for the user.
WebhookPurchased(userId) ==
    \E i \in DOMAIN credits_ledger :
        /\ credits_ledger[i].userId = userId
        /\ credits_ledger[i].type = "purchase"
        /\ credits_ledger[i].paypalEventId # null

\* The manual-Pro correction of the getCreditsBalance call of p writes the
\* account in this step.
CorrectionApplied(p) == proc[p].pc = "gcbUpdate" /\ Steps(p)

\* C33: in any interleaving of getCreditsBalance with the webhook's grant
\* transaction and subscription-id update, the manual-Pro correction never
\* writes an account whose 'pro' plan came from a webhook purchase.
C33_CorrectionSparesPurchases ==
    [][\A p \in Procs :
          CorrectionApplied(p) => ~WebhookPurchased(proc[p].userId)
      ]_vars

\* A write of getCreditsBalance (lazy initialisation or correction) by p.
BalanceQueryWrites(p) == proc[p].pc \in {"gcbSet", "gcbUpdate"} /\ Steps(p)

\* C34: the manual-Pro correction is applied at most once per account: it
\* never writes an account that already carries the manualProCreditsGranted
\* flag, and no write of a getCreditsBalance call changes the balance of an
\* account that carries the flag.
C34_CorrectionAppliedOnce ==
    [][\A p \in Procs :
          LET userDoc == users[proc[p].userId]
          IN  /\ CorrectionApplied(p) => ~userDoc.manualProCreditsGranted
              /\ (BalanceQueryWrites(p) /\ userDoc.manualProCreditsGranted)
                 => users'[proc[p].userId].credits_balance
                        = userDoc.credits_balance
      ]_vars

\* A purchase event that carries no custom_id: its user is the account that
\* stores the subscription id.
ByLookup(event) ==
    /\ event.event_type \in PurchaseEvents
    /\ event.custom_id = null

\* A verified delivery of such an event that was answered with no user
\* resolved for it.
Unresolved(p) ==
    /\ Delivered(p)
    /\ ByLookup(proc[p].event)
    /\ proc[p].userId = null

\* C35: with deliveries made one after another, a verified purchase event
\* whose user cannot be resolved (no custom_id, no account storing the
\* subscription id) changes no account and no ledger entry and goes on to
\* the processed_webhooks record; a delivery answered unresolved is
\* answered 200 with the record written; and an event that is recorded
\* without a ledger entry never gets one, also after an account storing
\* the subscription id has come to exist.
C35_UnresolvedIsRecordedForGood ==
    /\ [](\A p \in Procs :
             Unresolved(p) => /\ proc[p].status = 200
                              /\ proc[p].event.id \in processed_webhooks)
    /\ [][/\ \A p \in Procs :
               (proc[p].pc = "whLookup" /\ ByLookup(proc[p].event)
                     /\ UsersWithSubscription(proc[p].event.resourceId) = {}
                     /\ Steps(p) /\ ~proc'[p].exception)
               => /\ proc'[p].pc = "whMark"
                  /\ proc'[p].userId = null
                  /\ UNCHANGED <<users, credits_ledger>>
          /\ \A event \in Events :
               (ByLookup(event) /\ event.id \in processed_webhooks
                     /\ EventEntries(event.id) = {})
               => /\ EventEntries(event.id)' = {}
                  /\ event.id \in processed_webhooks'
      ]_vars

\* The event was delivered before any account stored its subscription id
\* and again after one did: both deliveries were answered with no user
\* resolved, the event is recorded and has no ledger entry.
C35_Witness ==
    \E p, q \in Procs :
        /\ p # q
        /\ Unresolved(p)
        /\ Unresolved(q)
        /\ proc[p].event.id = proc[q].event.id
        /\ UsersWithSubscription(proc[p].event.resourceId) # {}
        /\ EventEntries(proc[p].event.id) = {}

\* The deduction of the chat request of p is decided in this step.
ChatDeducts(p) ==
    /\ proc[p].op = "chat"
    /\ proc[p].pc = "dedTxn"
    /\ Steps(p)

\* C36: the chat endpoint deducts one credit, with no idempotency key,
\* before the messages are validated and the AI provider is called: the
\* request reaches that point only with a committed deduction; whatever the
\* request is then answered with (400 for no valid message, an AI-provider
\* error, or the AI message), that step leaves every account and the ledger
\* as they are, so the credit is not restored; a request whose deduction
\* fails is answered 403 at once, with nothing written.
C36_ChatDeductsFirst ==
    /\ [](\A p \in Procs :
             proc[p].pc = "chatAI" => proc[p].result.success)
    /\ [][\A p \in Procs :
             LET userId == proc[p].userId
             IN  /\ (ChatDeducts(p) /\ proc'[p].result.success) =>
                       /\ proc'[p].pc = "chatAI"
                       /\ users'[userId].credits_balance
                              = users[userId].credits_balance - 1
                       /\ credits_ledger' = Append(credits_ledger,
                                                   Last(credits_ledger'))
                       /\ Last(credits_ledger').userId = userId
                       /\ Last(credits_ledger').amount = -1
                       /\ Last(credits_ledger').idempotencyKey = null
                 /\ (ChatDeducts(p) /\ ~proc'[p].result.success) =>
                       /\ Responded(p, "chat", 403)'
                       /\ UNCHANGED <<users, credits_ledger>>
                 /\ (proc[p].pc = "chatAI" /\ Steps(p)) =>
                       /\ proc'[p].pc = "done"
                       /\ proc'[p].status \in ChatStatuses
                       /\ UNCHANGED <<users, credits_ledger>>
       ]_vars

\* A chat request was answered 400 or with an AI-provider error after its
\* credit was taken: the account is one credit below the free allotment.
C36_Witness ==
    \E p \in Procs :
        /\ proc[p].op = "chat"
        /\ proc[p].pc = "done"
        /\ proc[p].status \in {400, 500}
        /\ proc[p].result.success
        /\ users[proc[p].userId].credits_balance = PLAN_CREDITS.free - 1

\* The generate-plan requests answered with a study plan.
PlansAnswered == {p \in Procs : Responded(p, "generatePlan", 200)}

\* The ledger entries that deduct a credit from the user for a generation.
GenerationDeductions(userId) ==
    {i \in DOMAIN credits_ledger :
        /\ credits_ledger[i].userId = userId
        /\ credits_ledger[i].type = "deduction"
        /\ \E g \in DOMAIN generations :
              credits_ledger[i].idempotencyKey = "gen_" \o ToString(g)}

\* The balance the account had before the requests arrived.
BalanceAtStart ==
    PLAN_CREDITS.free
        - Cardinality({i \in DOMAIN credits_ledger :
                          credits_ledger[i].description = "seed"})

\* C31: in every interleaving of the generate-plan requests of one user the
\* number of requests answered with a study plan is at most the number of
\* one-credit deductions made from the user for generations, hence at most
\* the balance the user started with (at most one at balance 1), and the
\* balance is never below 0.
C31_PlansNeverExceedDeductions ==
    /\ Cardinality(PlansAnswered)
           <= Cardinality(GenerationDeductions(RaceUser))
    /\ \A i \in GenerationDeductions(RaceUser) :
           credits_ledger[i].amount = -1
    /\ Cardinality(PlansAnswered) <= BalanceAtStart
    /\ users[RaceUser].credits_balance >= 0
    /\ users[RaceUser].credits_balance
           = BalanceAtStart - Cardinality(GenerationDeductions(RaceUser))

\* At balance 1 both requests passed the gate and stored a generation; one
\* was answered with its plan, the other 402 for insufficient credits.
C31_Witness ==
    \E p, q \in Procs :
        /\ BalanceAtStart = 1
        /\ Responded(p, "generatePlan", 200)
        /\ Responded(q, "generatePlan", 402)
        /\ proc[q].result.error = "Insufficient credits"
        /\ proc[q].generationId # 0
        /\ users[RaceUser].credits_balance = 0

\* A chat request with a messages array arrives at p in this step.
ChatArrives(p) ==
    /\ Free(p)
    /\ Steps(p)
    /\ proc'[p].op = "chat"
    /\ proc'[p].status # 400

\* C37: a chat request that arrives when the user has 20 or more
\* 'AI Chat Interaction' deduction entries of the last hour is answered 429
\* and the step writes nothing; and, also with concurrent chat requests, the
\* user never has more than 20 such entries.
C37_RateLimitHolds ==
    /\ [](recentMsgCount(RaceUser) <= 20)
    /\ [][\A p \in Procs :
             (ChatArrives(p) /\ recentMsgCount(proc'[p].userId) >= 20)
             => /\ Responded(p, "chat", 429)'
                /\ UNCHANGED <<users, credits_ledger>>
       ]_vars

\* currentSectionIndex names a section.
IndexInRange ==
    study.currentSectionIndex \in 0 .. Len(study.sections) - 1

\* A nextSection call that completes its fade-out advances by exactly one.
AdvancesByOne ==
    study'.fadingOut < study.fadingOut
        => study'.currentSectionIndex = study.currentSectionIndex + 1

\* A call at the last section invokes onComplete and does not advance.
LastSectionCompletes ==
    (study'.clicks > study.clicks
       /\ ~study.disabled /\ study.listeners > 0
       /\ study.currentSectionIndex = Len(study.sections) - 1)
        => /\ study'.completed > study.completed
           /\ study'.currentSectionIndex = study.currentSectionIndex
           /\ study'.fadingOut = study.fadingOut

\* C38: in a SequentialStudy, 0 <= currentSectionIndex <= sections.length - 1
\* at all times, every nextSection call that completes advances the index by
\* exactly one, and a call at the last section invokes onComplete without
\* advancing, also when nextSection is invoked again while an earlier call
\* still awaits its fade-out.
C38_IndexStaysInRange ==
    /\ []IndexInRange
    /\ [][AdvancesByOne /\ LastSectionCompletes]_vars

\* The quiz section is the current one.
QuizShown == InQuiz(study)

\* The continue button of the quiz accepts clicks.
ContinueEnabled ==
    QuizShown /\ (study.enabled \/ ~study.disabled \/ study.listeners > 0)

\* C39: in the quiz section every question is scored at most once, so score
\* never exceeds the number of questions, currentQuestion stays below the
\* number of questions, and the continue button is enabled only after the
\* last question was answered and the results are shown.
C39_QuizScoredOncePerQuestion ==
    /\ study.score <= Len(study.questions)
    /\ study.score <= study.currentQuestion + 1
    /\ Len(study.questions) > 0
          => study.currentQuestion < Len(study.questions)
    /\ ContinueEnabled
          => /\ study.view = "results"
             /\ study.currentQuestion = Len(study.questions) - 1

\* The number of incorrect answers at the end of the history.
RECURSIVE TrailingFailures(_)
TrailingFailures(history) ==
    IF history = <<>> \/ history[Len(history)] THEN 0
    ELSE 1 + TrailingFailures(SubSeq(history, 1, Len(history) - 1))

\* consecutive_failures counts the incorrect answers since the last correct
\* one, as far as the history of 20 items shows them.
FailuresAreCounted(masteryData) ==
    /\ TrailingFailures(masteryData.history) =
          (IF masteryData.consecutive_failures > Len(masteryData.history)
           THEN Len(masteryData.history)
           ELSE masteryData.consecutive_failures)
    /\ masteryData.consecutive_failures > Len(masteryData.history)
          => Len(masteryData.history) = 20

\* if (masteryData.consecutive_failures >= 3) escalation = { ... }
Escalation(p) == proc[p].masteryData.consecutive_failures >= 3

MasteryIsSane ==
    \A u \in UserIds :
        /\ mastery[u].level \in {1, 2, 3}
        /\ mastery[u].score \in 0..100
        /\ Len(mastery[u].history) <= 20
        /\ FailuresAreCounted(mastery[u])

\* The submission of p is answered in this step.
QuizAnswered(p) ==
    ~Responded(p, "quizSubmit", 200) /\ Responded(p, "quizSubmit", 200)'

EscalationWhenStruggling ==
    \A p \in Procs :
        QuizAnswered(p)
            => (Escalation(p)' <=>
                  /\ mastery'[proc'[p].userId].consecutive_failures >= 3
                  /\ TrailingFailures(mastery'[proc'[p].userId].history) >= 3)

LevelMovesOneStep ==
    \A u \in UserIds :
        mastery'[u].level - mastery[u].level \in {-1, 0, 1}

\* C40: after any sequence of quiz submissions for a concept the stored
\* mastery record has a level in {1, 2, 3} that changes by at most one step
\* per submission, a score in 0..100, at most 20 history items and
\* consecutive_failures equal to the number of incorrect answers since the
\* last correct one, and the response carries an escalation exactly when
\* consecutive_failures >= 3.
C40_MasteryRecordIsSane ==
    /\ []MasteryIsSane
    /\ [][LevelMovesOneStep /\ EscalationWhenStruggling]_vars

\* A submission answered with an escalation, after the history has reached
\* its 20 items and a correct answer had reset the count.
C40_Witness ==
    \E p \in Procs :
        /\ Responded(p, "quizSubmit", 200)
        /\ Escalation(p)
        /\ mastery[proc[p].userId].consecutive_failures = 3
        /\ Len(mastery[proc[p].userId].history) = 20
        /\ \E i \in 1..20 : mastery[proc[p].userId].history[i]

============================================================================
